---- MODULE Spec2Model ----
(***************************************************************************)
(* Model of the four lazily constructed singletons of                      *)
(* src/creational/singleton/Singleton.h (Singleton, ConfigManager,         *)
(* DatabaseConnection, Logger) and of their payload operations, as a       *)
(* system of threads whose steps are the synchronisation points of the     *)
(* code: a lock_guard's acquisition, an atomic load or store, a body run   *)
(* under a lock.                                                           *)
(***************************************************************************)
EXTENDS Integers, Sequences, FiniteSets, TLC

\* ---------------------------------------------------------------- bounds
NThreads == 3        \* threads of the process
NCallers == 2        \* threads that make the calls of a run with a call budget
MaxData == 1         \* longest Singleton::data_ explored
MaxHistory == 2      \* longest DatabaseConnection::query_history_ explored
MaxLogs == 2         \* longest Logger::logs_ explored
MaxCalls == 4        \* calls begun in a run that has a call budget
MaxOps == 4          \* builder operations in a run that uses the three builders
MaxSqlOps == 6       \* builder operations in a run that uses the SQL query builder
MaxProtoOps == 4     \* operations in a run that creates and clones Characters
MaxBag == 2          \* longest Singleton::data_ in the runs of the data bag
MaxRegistryOps == 5  \* operations in a run that uses the prototype registry

Threads == 1..NThreads
Callers == 1..NCallers

\* the thread of a single-threaded run
Main == 1

\* ------------------------------------------------------- program constants
Holders == {"Singleton", "ConfigManager", "DatabaseConnection", "Logger"}

\* LogLevel enumerators
DEBUG == 0
INFO == 1
WARN == 2
ERROR == 3
LogLevels == {DEBUG, INFO, WARN, ERROR}

\* DatabaseConnection(): the connection string a new payload starts with
DefaultConnectionString == "mongodb://localhost:27017/designpatterns"

\* ConfigManager(): the entries a new payload starts with
DefaultConfig ==
    [k \in {"api_url", "timeout", "retries", "debug", "max_connections"} |->
        CASE k = "api_url" -> "https://api.example.com"
          [] k = "timeout" -> "5000"
          [] k = "retries" -> "3"
          [] k = "debug" -> "false"
          [] k = "max_connections" -> "100"]

\* the map of a payload that does not exist (no entry at all)
NoConfig == [k \in {} |-> ""]

\* nullptr, an unlocked mutex, and the reference of a thread that holds none
Null == 0
Free == 0
NoRef == <<"none", 0>>

\* what a call that has not returned anything (yet) leaves in ret
NoValue == <<"void">>

VARIABLES
    instance_,          \* [holder -> Null or the identity of the owned payload]
    mutex_,             \* [holder -> Free or the thread that holds X::mutex_]
    ctorRuns,           \* [holder -> number of payload constructor runs]
    pc,                 \* [thread -> position in the call it is running]
    callee,             \* [thread -> holder of the getInstance() it is running]
    fresh,              \* [thread -> identity of the payload it has constructed]
    cur,                \* [thread -> the reference its last getInstance() returned]
    arg,                \* [thread -> arguments of the call it is running]
    ret,                \* [thread -> what its last call returned or threw]
    data_,              \* Singleton::data_
    config_,            \* ConfigManager::config_
    connection_string_, \* DatabaseConnection::connection_string_
    is_connected_,      \* DatabaseConnection::is_connected_
    query_history_,     \* DatabaseConnection::query_history_
    query_mutex_,       \* DatabaseConnection::query_mutex_
    logs_,              \* Logger::logs_
    min_level_,         \* Logger::min_level_
    log_mutex_,         \* Logger::log_mutex_
    didSetup,           \* [thread -> its connect() ran the connection set-up]
    firstRet,           \* [holder -> identity the first returned getInstance() gave]
    pre,                \* the payloads as they were when the last call began, if recorded
    budget,             \* calls the run may still begin (Unlimited: any number)
    lockOrder           \* items of the addData() calls that took the lock since the
                        \* last clearData() did, in the order they took it

\* the builders of src/creational/builder/Builder.h; an object lives in the
\* heap of its class (a sequence: make_unique appends), a unique_ptr is an
\* index into it
VARIABLES
    computerHeap,       \* the Computer objects allocated so far
    b_computer,         \* ConcreteComputerBuilder::computer
    builtComputers,     \* the unique_ptr<Computer>s build() has returned, oldest first
    queryHeap,          \* the SQLQuery objects allocated so far
    b_query,            \* SQLQueryBuilder::query
    builtQueries,       \* the unique_ptr<SQLQuery>s build() has returned, oldest first
    requestHeap,        \* the HttpRequest objects allocated so far
    b_request,          \* HttpRequestBuilder::request
    builtRequests,      \* the unique_ptr<HttpRequest>s build() has returned, oldest first
    lastOp,             \* the kind of operation the caller of the library ran last
    libRet              \* that operation with its arguments and what it returned

\* the prototypes of src/creational/prototype/Prototype.h; a Character lives
\* in a heap, and so do the buffer of its std::vector and the table of its
\* std::unordered_map, which the object refers to by index
VARIABLES
    characters,         \* the Character objects allocated so far
    stringVectors,      \* the buffers of the Character::skills vectors allocated so far
    stringMaps,         \* the tables of the Character::equipment maps allocated so far
    owner,              \* who holds the unique_ptr to each Character, if it still exists
    cloneOf,            \* the Character each Character was copy-constructed from, if any
    prototypes          \* PrototypeRegistry::prototypes

computerVars == <<computerHeap, b_computer, builtComputers>>
sqlVars == <<queryHeap, b_query, builtQueries>>
httpVars == <<requestHeap, b_request, builtRequests>>
builderVars == <<computerVars, sqlVars, httpVars>>
VARIABLES
    factories,          \* the factory objects allocated so far
    products,           \* the products the factories have made, oldest first
    applications        \* the Application objects constructed so far

VARIABLES
    audioPlayer,        \* the AudioPlayer: its adapter, volume and playlist
    mediaAdapters       \* the MediaAdapter objects allocated so far

VARIABLES
    devices,            \* the Device objects: a Television and a Radio
    remotes             \* the RemoteControl objects, each with its device

VARIABLES
    triangle,           \* the Triangle prototype, once constructed: <<object>>
    triangleCopy        \* <<what the last clone() of the Triangle returned>>

factoryVars == <<factories, products, applications>>
bridgeVars == <<devices, remotes>>
shapeVars == <<triangle, triangleCopy>>
adapterVars == <<audioPlayer, mediaAdapters>>
characterVars == <<characters, stringVectors, stringMaps, owner, cloneOf>>
protoVars == <<characterVars, prototypes>>
libVars == <<builderVars, protoVars, factoryVars, adapterVars, bridgeVars, shapeVars,
            lastOp, libRet>>

slotVars == <<instance_, ctorRuns, callee, fresh, cur, firstRet>>
holderVars == <<slotVars, mutex_>>
singletonVars == <<data_, lockOrder>>
configVars == <<config_>>
dbVars == <<connection_string_, is_connected_, query_history_, query_mutex_, didSetup>>
loggerVars == <<logs_, min_level_, log_mutex_>>
payloadVars == <<singletonVars, configVars, dbVars, loggerVars>>
progVars == <<pc, arg, ret, holderVars, payloadVars>>
envVars == <<pre, budget>>
vars == <<progVars, envVars, libVars>>

\* ------------------------------------------------ the library classes
\* Computer: the values of a default-constructed object
DefaultComputer ==
    [cpu |-> "", memory |-> "", storage |-> "", graphics |-> "",
     motherboard |-> "", powerSupply |-> "", coolingSystem |-> "",
     networkCard |-> "", warranty |-> 0]

\* SQLQuery: the values of a default-constructed object
DefaultQuery ==
    [selectColumns |-> <<>>, fromTable |-> "", joins |-> <<>>,
     whereConditions |-> <<>>, groupByColumns |-> <<>>,
     havingConditions |-> <<>>, orderByColumns |-> <<>>,
     limitCount |-> -1, offsetCount |-> -1]

\* HttpRequest: the values of a default-constructed object
DefaultRequest ==
    [method |-> "GET", url |-> "", headers |-> <<>>, body |-> "",
     timeout |-> 30000, retries |-> 0]

\* the builders' constructors: each allocates the object it will fill
BuilderInit ==
    /\ computerHeap = <<DefaultComputer>> /\ b_computer = 1 /\ builtComputers = <<>>
    /\ queryHeap = <<DefaultQuery>> /\ b_query = 1 /\ builtQueries = <<>>
    /\ requestHeap = <<DefaultRequest>> /\ b_request = 1 /\ builtRequests = <<>>

\* no Character exists yet; PrototypeRegistry() = default: an empty map
ProtoInit ==
    /\ characters = <<>> /\ stringVectors = <<>> /\ stringMaps = <<>>
    /\ owner = <<>> /\ cloneOf = <<>>
    /\ prototypes = [k \in {} |-> 0]

\* no factory has been asked for
FactoryInit ==
    /\ factories = <<>>
    /\ products = <<>>
    /\ applications = <<>>

\* AudioPlayer::AudioPlayer() : volume(50); adapter is a null unique_ptr and
\* the playlist empty; no MediaAdapter exists
AdapterInit ==
    /\ audioPlayer = [adapter |-> Null, volume |-> 50, playlist |-> <<>>]
    /\ mediaAdapters = <<>>

\* no Device and no RemoteControl has been made
BridgeInit ==
    /\ devices = <<>>
    /\ remotes = <<>>

\* no Triangle has been made
ShapeInit ==
    /\ triangle = <<>>
    /\ triangleCopy = <<>>

\* the library objects as constructed, before any operation on them
LibInit ==
    /\ BuilderInit
    /\ ProtoInit
    /\ FactoryInit
    /\ AdapterInit
    /\ BridgeInit
    /\ ShapeInit
    /\ lastOp = "none"
    /\ libRet = NoValue

\* ------------------------------------------------------------------ Init
\* Singleton.cpp: every instance_ is nullptr and every mutex unlocked; no
\* payload exists, so its fields have no value yet (they get one in the
\* constructor).
ProgInit_Eager ==
    /\ instance_ = [h \in Holders |-> IF h = "ConfigManager" THEN 1 ELSE Null]
    /\ mutex_ = [h \in Holders |-> Free]
    /\ ctorRuns = [h \in Holders |-> IF h = "ConfigManager" THEN 1 ELSE 0]
    /\ pc = [t \in Threads |-> "idle"]
    /\ callee = [t \in Threads |-> "none"]
    /\ fresh = [t \in Threads |-> Null]
    /\ cur = [t \in Threads |-> NoRef]
    /\ arg = [t \in Threads |-> <<>>]
    /\ ret = [t \in Threads |-> NoValue]
    /\ data_ = <<>>
    /\ lockOrder = <<>>
    /\ config_ = DefaultConfig
    /\ connection_string_ = ""
    /\ is_connected_ = FALSE
    /\ query_history_ = <<>>
    /\ query_mutex_ = Free
    /\ logs_ = <<>>
    /\ min_level_ = DEBUG
    /\ log_mutex_ = Free
    /\ didSetup = [t \in Threads |-> FALSE]
    /\ firstRet = [h \in Holders |-> Null]

ProgInit ==
    /\ instance_ = [h \in Holders |-> Null]
    /\ mutex_ = [h \in Holders |-> Free]
    /\ ctorRuns = [h \in Holders |-> 0]
    /\ pc = [t \in Threads |-> "idle"]
    /\ callee = [t \in Threads |-> "none"]
    /\ fresh = [t \in Threads |-> Null]
    /\ cur = [t \in Threads |-> NoRef]
    /\ arg = [t \in Threads |-> <<>>]
    /\ ret = [t \in Threads |-> NoValue]
    /\ data_ = <<>>
    /\ lockOrder = <<>>
    /\ config_ = NoConfig
    /\ connection_string_ = ""
    /\ is_connected_ = FALSE
    /\ query_history_ = <<>>
    /\ query_mutex_ = Free
    /\ logs_ = <<>>
    /\ min_level_ = DEBUG
    /\ log_mutex_ = Free
    /\ didSetup = [t \in Threads |-> FALSE]
    /\ firstRet = [h \in Holders |-> Null]

\* a run that may begin any number of calls
Unlimited == -1

\* no record of the payloads is kept
NotRecorded == [on |-> FALSE]

\* the calls of ConfigManager::set and ConfigManager::remove begun so far,
\* by key: w extended by the call that begins at position p with arguments a
Settings(w, p, a) ==
    IF p \in {"cs_lock", "cr_lock"}
    THEN [k \in DOMAIN w \cup {a[1]} |->
             IF k # a[1] THEN w[k]
             ELSE IF p = "cs_lock" THEN <<"set", a[2]>> ELSE <<"removed">>]
    ELSE w

\* the record of the payloads as thread t begins a call at position p with
\* arguments a
Snapshot(t, p, a) ==
    [on |-> TRUE, by |-> t, at |-> p, arg |-> a,
     sets |-> Settings(pre.sets, p, a),
     data |-> data_, config |-> config_,
     str |-> connection_string_, conn |-> is_connected_, hist |-> query_history_,
     logs |-> logs_, min |-> min_level_]

\* the caller's side of a call that begins: it is counted against the
\* run's budget and, in a run that records them, the payloads are recorded
Enter(t, p, a) ==
    /\ budget # 0
    /\ budget' = IF budget = Unlimited THEN Unlimited ELSE budget - 1
    /\ pre' = IF pre.on THEN Snapshot(t, p, a) ELSE pre
    /\ UNCHANGED libVars

\* a thread moves to position p
Goto(t, p) == pc' = [pc EXCEPT ![t] = p]

\* a thread goes on to position p of the call it is running
Advance(t, p) == Goto(t, p) /\ UNCHANGED <<envVars, libVars>>

\* a thread begins a call with arguments a
Begin(t, p, a) ==
    /\ pc[t] = "idle"
    /\ Enter(t, p, a)
    /\ Goto(t, p)
    /\ arg' = [arg EXCEPT ![t] = a]
    /\ ret' = [ret EXCEPT ![t] = NoValue]

\* a thread ends its call returning r
Return(t, r) ==
    /\ Goto(t, "idle")
    /\ arg' = [arg EXCEPT ![t] = <<>>]
    /\ ret' = [ret EXCEPT ![t] = r]
    /\ UNCHANGED <<envVars, libVars>>

\* the thread holds a reference to the payload of holder h
HasRef(t, h) == cur[t][1] = h /\ cur[t][2] # Null

\* ------------------------------------------------- X::getInstance()
\* the call begins: the lock_guard is about to be constructed (the caller
\* keeps one reference at a time: it lets go of the one it had)
GetInstanceCall(t, h) ==
    /\ Begin(t, "gi_lock", <<>>)
    /\ callee' = [callee EXCEPT ![t] = h]
    /\ cur' = [cur EXCEPT ![t] = NoRef]
    /\ UNCHANGED <<instance_, mutex_, ctorRuns, fresh, firstRet, payloadVars>>

\* std::lock_guard<std::mutex> lock(mutex_): blocks until the mutex is free
GetInstanceLock_NoLock(t) ==
    /\ pc[t] = "gi_lock"
    /\ Advance(t, "gi_check")
    /\ UNCHANGED <<arg, ret, holderVars, payloadVars>>

GetInstanceLock(t) ==
    /\ pc[t] = "gi_lock"
    /\ mutex_[callee[t]] = Free
    /\ mutex_' = [mutex_ EXCEPT ![callee[t]] = t]
    /\ Advance(t, "gi_check")
    /\ UNCHANGED <<arg, ret, slotVars, payloadVars>>

\* if (instance_ == nullptr)
GetInstanceCheck_Always(t) ==
    /\ pc[t] = "gi_check"
    /\ Advance(t, "gi_new")
    /\ UNCHANGED <<arg, ret, holderVars, payloadVars>>

GetInstanceCheck(t) ==
    /\ pc[t] = "gi_check"
    /\ IF instance_[callee[t]] = Null THEN Advance(t, "gi_new") ELSE Advance(t, "gi_ret")
    /\ UNCHANGED <<arg, ret, holderVars, payloadVars>>

\* new X(): the payload constructor runs to completion
GetInstanceConstruct(t) ==
    /\ pc[t] = "gi_new"
    /\ ctorRuns' = [ctorRuns EXCEPT ![callee[t]] = @ + 1]
    /\ fresh' = [fresh EXCEPT ![t] = ctorRuns[callee[t]] + 1]
    /\ Advance(t, "gi_store")
    /\ UNCHANGED <<arg, ret, instance_, mutex_, callee, cur, firstRet, payloadVars>>

\* new X() throws and the lock is not given back: what a lock()/unlock() pair
\* in place of the lock_guard would do
GetInstanceConstructThrows_Locked(t) ==
    /\ pc[t] = "gi_new"
    /\ callee' = [callee EXCEPT ![t] = "none"]
    /\ Return(t, <<"throw", "std::bad_alloc", callee[t]>>)
    /\ UNCHANGED <<instance_, mutex_, ctorRuns, fresh, cur, firstRet, payloadVars>>

\* new X() throws (the allocation fails, or the constructor does): the
\* assignment to instance_ is not reached, unwinding destroys the lock_guard,
\* which unlocks, and the exception leaves getInstance(); the caller gets no
\* reference
GetInstanceConstructThrows(t) ==
    /\ pc[t] = "gi_new"
    /\ mutex_' = [mutex_ EXCEPT ![callee[t]] = Free]
    /\ callee' = [callee EXCEPT ![t] = "none"]
    /\ Return(t, <<"throw", "std::bad_alloc", callee[t]>>)
    /\ UNCHANGED <<instance_, ctorRuns, fresh, cur, firstRet, payloadVars>>

\* the fields of the payload the slot owns after the store: those its
\* constructor gave it
StorePayload(h) ==
    /\ data_' = IF h = "Singleton" THEN <<>> ELSE data_
    /\ lockOrder' = lockOrder
    /\ config_' = IF h = "ConfigManager" THEN DefaultConfig ELSE config_
    /\ connection_string_' =
            IF h = "DatabaseConnection" THEN DefaultConnectionString
            ELSE connection_string_
    /\ is_connected_' = IF h = "DatabaseConnection" THEN FALSE ELSE is_connected_
    /\ query_history_' = IF h = "DatabaseConnection" THEN <<>> ELSE query_history_
    /\ logs_' = IF h = "Logger" THEN <<>> ELSE logs_
    /\ min_level_' = IF h = "Logger" THEN INFO ELSE min_level_
    /\ UNCHANGED <<query_mutex_, log_mutex_, didSetup>>

\* instance_ = std::unique_ptr<X>(...): the slot takes the new payload
GetInstanceStore(t) ==
    /\ pc[t] = "gi_store"
    /\ instance_' = [instance_ EXCEPT ![callee[t]] = fresh[t]]
    /\ StorePayload(callee[t])
    /\ Advance(t, "gi_ret")
    /\ UNCHANGED <<arg, ret, mutex_, ctorRuns, callee, fresh, cur, firstRet>>

\* return *instance_; and the lock_guard's destructor unlocks
GetInstanceReturn_NoUnlock(t) ==
    /\ pc[t] = "gi_ret"
    /\ cur' = [cur EXCEPT ![t] = <<callee[t], instance_[callee[t]]>>]
    /\ firstRet' = [firstRet EXCEPT ![callee[t]] =
                        IF @ = Null THEN instance_[callee[t]] ELSE @]
    /\ callee' = [callee EXCEPT ![t] = "none"]
    /\ fresh' = [fresh EXCEPT ![t] = Null]
    /\ Return(t, NoValue)
    /\ UNCHANGED <<instance_, mutex_, ctorRuns, payloadVars>>

GetInstanceReturn(t) ==
    /\ pc[t] = "gi_ret"
    /\ cur' = [cur EXCEPT ![t] = <<callee[t], instance_[callee[t]]>>]
    /\ firstRet' = [firstRet EXCEPT ![callee[t]] =
                        IF @ = Null THEN instance_[callee[t]] ELSE @]
    /\ mutex_' = [mutex_ EXCEPT ![callee[t]] = Free]
    /\ callee' = [callee EXCEPT ![t] = "none"]
    /\ fresh' = [fresh EXCEPT ![t] = Null]
    /\ Return(t, NoValue)
    /\ UNCHANGED <<instance_, ctorRuns, payloadVars>>

GetInstanceStep(t) ==
    \/ GetInstanceLock(t)
    \/ GetInstanceCheck(t)
    \/ GetInstanceConstruct(t)
    \/ GetInstanceStore(t)
    \/ GetInstanceReturn(t)

\* ------------------------------------------------------------ Singleton
\* lockOrder once the call at position p with arguments a has taken the lock
Taken(p, a) ==
    IF p = "ad_lock" THEN Append(lockOrder, a[1])
    ELSE IF p = "cd_lock" THEN <<>>
    ELSE lockOrder

\* std::lock_guard<std::mutex> lock(mutex_) in a payload operation of holder
\* h: the thread at position p takes X::mutex_ and goes on to position q
PayloadLock(t, h, p, q) ==
    /\ pc[t] = p
    /\ mutex_[h] = Free
    /\ mutex_' = [mutex_ EXCEPT ![h] = t]
    /\ lockOrder' = Taken(p, arg[t])
    /\ Advance(t, q)
    /\ UNCHANGED <<arg, ret, slotVars, data_, configVars, dbVars, loggerVars>>

\* addData() without its lock_guard: the call goes on to push_back at once
AddDataLock_NoLock(t) ==
    /\ pc[t] = "ad_lock"
    /\ lockOrder' = Taken("ad_lock", arg[t])
    /\ Advance(t, "ad_body")
    /\ UNCHANGED <<arg, ret, holderVars, data_, configVars, dbVars, loggerVars>>

\* the threads that are inside addData()
InAddData == {u \in Threads : pc[u] \in {"ad_lock", "ad_body"}}

\* void addData(const std::string& item)
AddDataCall(t, item, longest) ==
    /\ HasRef(t, "Singleton")
    /\ Len(data_) + Cardinality(InAddData) < longest
    /\ Begin(t, "ad_lock", <<item>>)
    /\ UNCHANGED <<holderVars, payloadVars>>

AddDataLock(t) == PayloadLock(t, "Singleton", "ad_lock", "ad_body")

AddDataBody(t) ==
    /\ pc[t] = "ad_body"
    /\ data_' = Append(data_, arg[t][1])
    /\ mutex_' = [mutex_ EXCEPT !["Singleton"] = Free]
    /\ Return(t, NoValue)
    /\ UNCHANGED <<slotVars, lockOrder, configVars, dbVars, loggerVars>>

\* std::vector<std::string> getData() const
GetDataCall(t) ==
    /\ HasRef(t, "Singleton")
    /\ Begin(t, "gd_lock", <<>>)
    /\ UNCHANGED <<holderVars, payloadVars>>

GetDataLock(t) == PayloadLock(t, "Singleton", "gd_lock", "gd_body")

GetDataBody(t) ==
    /\ pc[t] = "gd_body"
    /\ mutex_' = [mutex_ EXCEPT !["Singleton"] = Free]
    /\ Return(t, <<"vector", data_>>)
    /\ UNCHANGED <<slotVars, payloadVars>>

\* void clearData()
ClearDataCall(t) ==
    /\ HasRef(t, "Singleton")
    /\ Begin(t, "cd_lock", <<>>)
    /\ UNCHANGED <<holderVars, payloadVars>>

ClearDataLock(t) == PayloadLock(t, "Singleton", "cd_lock", "cd_body")

ClearDataBody(t) ==
    /\ pc[t] = "cd_body"
    /\ data_' = <<>>
    /\ mutex_' = [mutex_ EXCEPT !["Singleton"] = Free]
    /\ Return(t, NoValue)
    /\ UNCHANGED <<slotVars, lockOrder, configVars, dbVars, loggerVars>>

\* size_t getDataCount() const
GetDataCountCall(t) ==
    /\ HasRef(t, "Singleton")
    /\ Begin(t, "gc_lock", <<>>)
    /\ UNCHANGED <<holderVars, payloadVars>>

GetDataCountLock(t) == PayloadLock(t, "Singleton", "gc_lock", "gc_body")

GetDataCountBody(t) ==
    /\ pc[t] = "gc_body"
    /\ mutex_' = [mutex_ EXCEPT !["Singleton"] = Free]
    /\ Return(t, <<"size", Len(data_)>>)
    /\ UNCHANGED <<slotVars, payloadVars>>

SingletonStep(t) ==
    \/ AddDataLock(t) \/ AddDataBody(t)
    \/ GetDataLock(t) \/ GetDataBody(t)
    \/ ClearDataLock(t) \/ ClearDataBody(t)
    \/ GetDataCountLock(t) \/ GetDataCountBody(t)

\* -------------------------------------------------------- ConfigManager
\* the map m with key k bound to v (config_[key] = value)
MapPut(m, k, v) == [x \in DOMAIN m \cup {k} |-> IF x = k THEN v ELSE m[x]]

\* the map m without key k (config_.erase(key))
MapErase(m, k) == [x \in DOMAIN m \ {k} |-> m[x]]

\* std::string get(const std::string& key) const
ConfigGetCall(t, key) ==
    /\ HasRef(t, "ConfigManager")
    /\ Begin(t, "cg_lock", <<key>>)
    /\ UNCHANGED <<holderVars, payloadVars>>

ConfigGetLock(t) == PayloadLock(t, "ConfigManager", "cg_lock", "cg_body")

\* get() written with operator[] instead of find(): a missing key is
\* inserted with an empty value
ConfigGetBody_Insert(t) ==
    /\ pc[t] = "cg_body"
    /\ config_' = IF arg[t][1] \in DOMAIN config_ THEN config_
                  ELSE MapPut(config_, arg[t][1], "")
    /\ mutex_' = [mutex_ EXCEPT !["ConfigManager"] = Free]
    /\ Return(t, <<"string",
                   IF arg[t][1] \in DOMAIN config_ THEN config_[arg[t][1]] ELSE "">>)
    /\ UNCHANGED <<slotVars, singletonVars, dbVars, loggerVars>>

ConfigGetBody(t) ==
    /\ pc[t] = "cg_body"
    /\ mutex_' = [mutex_ EXCEPT !["ConfigManager"] = Free]
    /\ Return(t, <<"string",
                   IF arg[t][1] \in DOMAIN config_ THEN config_[arg[t][1]] ELSE "">>)
    /\ UNCHANGED <<slotVars, payloadVars>>

\* void set(const std::string& key, const std::string& value)
ConfigSetCall(t, key, value) ==
    /\ HasRef(t, "ConfigManager")
    /\ Begin(t, "cs_lock", <<key, value>>)
    /\ UNCHANGED <<holderVars, payloadVars>>

ConfigSetLock(t) == PayloadLock(t, "ConfigManager", "cs_lock", "cs_body")

ConfigSetBody(t) ==
    /\ pc[t] = "cs_body"
    /\ config_' = MapPut(config_, arg[t][1], arg[t][2])
    /\ mutex_' = [mutex_ EXCEPT !["ConfigManager"] = Free]
    /\ Return(t, NoValue)
    /\ UNCHANGED <<slotVars, singletonVars, dbVars, loggerVars>>

\* std::unordered_map<std::string, std::string> getAll() const
ConfigGetAllCall(t) ==
    /\ HasRef(t, "ConfigManager")
    /\ Begin(t, "ca_lock", <<>>)
    /\ UNCHANGED <<holderVars, payloadVars>>

ConfigGetAllLock(t) == PayloadLock(t, "ConfigManager", "ca_lock", "ca_body")

ConfigGetAllBody(t) ==
    /\ pc[t] = "ca_body"
    /\ mutex_' = [mutex_ EXCEPT !["ConfigManager"] = Free]
    /\ Return(t, <<"map", config_>>)
    /\ UNCHANGED <<slotVars, payloadVars>>

\* bool hasKey(const std::string& key) const
ConfigHasKeyCall(t, key) ==
    /\ HasRef(t, "ConfigManager")
    /\ Begin(t, "ch_lock", <<key>>)
    /\ UNCHANGED <<holderVars, payloadVars>>

ConfigHasKeyLock(t) == PayloadLock(t, "ConfigManager", "ch_lock", "ch_body")

ConfigHasKeyBody(t) ==
    /\ pc[t] = "ch_body"
    /\ mutex_' = [mutex_ EXCEPT !["ConfigManager"] = Free]
    /\ Return(t, <<"bool", arg[t][1] \in DOMAIN config_>>)
    /\ UNCHANGED <<slotVars, payloadVars>>

\* bool remove(const std::string& key)
ConfigRemoveCall(t, key) ==
    /\ HasRef(t, "ConfigManager")
    /\ Begin(t, "cr_lock", <<key>>)
    /\ UNCHANGED <<holderVars, payloadVars>>

ConfigRemoveLock(t) == PayloadLock(t, "ConfigManager", "cr_lock", "cr_body")

ConfigRemoveBody(t) ==
    /\ pc[t] = "cr_body"
    /\ config_' = MapErase(config_, arg[t][1])
    /\ mutex_' = [mutex_ EXCEPT !["ConfigManager"] = Free]
    /\ Return(t, <<"bool", arg[t][1] \in DOMAIN config_>>)
    /\ UNCHANGED <<slotVars, singletonVars, dbVars, loggerVars>>

ConfigStep(t) ==
    \/ ConfigGetLock(t) \/ ConfigGetBody(t)
    \/ ConfigSetLock(t) \/ ConfigSetBody(t)
    \/ ConfigGetAllLock(t) \/ ConfigGetAllBody(t)
    \/ ConfigHasKeyLock(t) \/ ConfigHasKeyBody(t)
    \/ ConfigRemoveLock(t) \/ ConfigRemoveBody(t)

\* --------------------------------------------------- DatabaseConnection
\* the threads that are inside executeQuery()
InExecuteQuery == {u \in Threads : pc[u] \in {"eq_check", "eq_lock", "eq_body"}}

\* bool connect()
ConnectCall(t) ==
    /\ HasRef(t, "DatabaseConnection")
    /\ Begin(t, "co_check", <<>>)
    /\ didSetup' = [didSetup EXCEPT ![t] = FALSE]
    /\ UNCHANGED <<holderVars, singletonVars, configVars, loggerVars,
                   connection_string_, is_connected_, query_history_, query_mutex_>>

\* if (!is_connected_.load())
ConnectCheck_NoCheck(t) ==
    /\ pc[t] = "co_check"
    /\ Advance(t, "co_setup")
    /\ UNCHANGED <<arg, ret, holderVars, payloadVars>>

ConnectCheck(t) ==
    /\ pc[t] = "co_check"
    /\ IF ~is_connected_ THEN Advance(t, "co_setup") ELSE Advance(t, "co_ret")
    /\ UNCHANGED <<arg, ret, holderVars, payloadVars>>

\* "Connecting to database: ..." and the simulated connection delay
ConnectSetup(t) ==
    /\ pc[t] = "co_setup"
    /\ didSetup' = [didSetup EXCEPT ![t] = TRUE]
    /\ Advance(t, "co_store")
    /\ UNCHANGED <<arg, ret, holderVars, singletonVars, configVars, loggerVars,
                   connection_string_, is_connected_, query_history_, query_mutex_>>

\* is_connected_.store(true)
ConnectStore(t) ==
    /\ pc[t] = "co_store"
    /\ is_connected_' = TRUE
    /\ Advance(t, "co_ret")
    /\ UNCHANGED <<arg, ret, holderVars, singletonVars, configVars, loggerVars,
                   connection_string_, query_history_, query_mutex_, didSetup>>

\* return is_connected_.load()
ConnectReturn(t) ==
    /\ pc[t] = "co_ret"
    /\ Return(t, <<"bool", is_connected_>>)
    /\ UNCHANGED <<holderVars, payloadVars>>

\* void disconnect()
DisconnectCall(t) ==
    /\ HasRef(t, "DatabaseConnection")
    /\ Begin(t, "di_check", <<>>)
    /\ UNCHANGED <<holderVars, payloadVars>>

\* if (is_connected_.load())
DisconnectCheck(t) ==
    /\ pc[t] = "di_check"
    /\ IF is_connected_
       THEN Advance(t, "di_store") /\ UNCHANGED <<arg, ret>>
       ELSE Return(t, NoValue)
    /\ UNCHANGED <<holderVars, payloadVars>>

\* is_connected_.store(false)
DisconnectStore(t) ==
    /\ pc[t] = "di_store"
    /\ is_connected_' = FALSE
    /\ Return(t, NoValue)
    /\ UNCHANGED <<holderVars, singletonVars, configVars, loggerVars,
                   connection_string_, query_history_, query_mutex_, didSetup>>

\* std::string executeQuery(const std::string& query)
ExecuteQueryCall(t, query) ==
    /\ HasRef(t, "DatabaseConnection")
    /\ Len(query_history_) + Cardinality(InExecuteQuery) < MaxHistory
    /\ Begin(t, "eq_check", <<query>>)
    /\ UNCHANGED <<holderVars, payloadVars>>

\* if (!is_connected_.load()) throw std::runtime_error(...)
ExecuteQueryCheck_NoThrow(t) ==
    /\ pc[t] = "eq_check"
    /\ Advance(t, "eq_lock")
    /\ UNCHANGED <<arg, ret, holderVars, payloadVars>>

ExecuteQueryCheck(t) ==
    /\ pc[t] = "eq_check"
    /\ IF ~is_connected_
       THEN Return(t, <<"throw", "Database not connected">>)
       ELSE Advance(t, "eq_lock") /\ UNCHANGED <<arg, ret>>
    /\ UNCHANGED <<holderVars, payloadVars>>

\* std::lock_guard<std::mutex> lock(query_mutex_)
QueryLock(t, p, q) ==
    /\ pc[t] = p
    /\ query_mutex_ = Free
    /\ query_mutex_' = t
    /\ Advance(t, q)
    /\ UNCHANGED <<arg, ret, holderVars, singletonVars, configVars, loggerVars,
                   connection_string_, is_connected_, query_history_, didSetup>>

ExecuteQueryLock(t) == QueryLock(t, "eq_lock", "eq_body")

\* query_history_.push_back(query); return "Executed: " + query
ExecuteQueryBody(t) ==
    /\ pc[t] = "eq_body"
    /\ query_history_' = Append(query_history_, arg[t][1])
    /\ query_mutex_' = Free
    /\ Return(t, <<"string", "Executed: " \o arg[t][1]>>)
    /\ UNCHANGED <<holderVars, singletonVars, configVars, loggerVars,
                   connection_string_, is_connected_, didSetup>>

\* std::vector<std::string> getQueryHistory() const
GetQueryHistoryCall(t) ==
    /\ HasRef(t, "DatabaseConnection")
    /\ Begin(t, "qh_lock", <<>>)
    /\ UNCHANGED <<holderVars, payloadVars>>

GetQueryHistoryLock(t) == QueryLock(t, "qh_lock", "qh_body")

GetQueryHistoryBody(t) ==
    /\ pc[t] = "qh_body"
    /\ query_mutex_' = Free
    /\ Return(t, <<"vector", query_history_>>)
    /\ UNCHANGED <<holderVars, singletonVars, configVars, loggerVars,
                   connection_string_, is_connected_, query_history_, didSetup>>

\* bool isConnected() const: one atomic load
IsConnected(t) ==
    /\ HasRef(t, "DatabaseConnection")
    /\ pc[t] = "idle"
    /\ Enter(t, "ic", <<>>)
    /\ arg' = [arg EXCEPT ![t] = <<>>]
    /\ ret' = [ret EXCEPT ![t] = <<"bool", is_connected_>>]
    /\ UNCHANGED <<pc, holderVars, payloadVars>>

\* std::string getConnectionString() const: an unsynchronised read
GetConnectionString(t) ==
    /\ HasRef(t, "DatabaseConnection")
    /\ pc[t] = "idle"
    /\ Enter(t, "gs", <<>>)
    /\ arg' = [arg EXCEPT ![t] = <<>>]
    /\ ret' = [ret EXCEPT ![t] = <<"string", connection_string_>>]
    /\ UNCHANGED <<pc, holderVars, payloadVars>>

\* void setConnectionString(const std::string& connectionString)
SetConnectionStringCall(t, connectionString) ==
    /\ HasRef(t, "DatabaseConnection")
    /\ Begin(t, "sc_check", <<connectionString>>)
    /\ UNCHANGED <<holderVars, payloadVars>>

\* if (is_connected_.load()) throw std::runtime_error(...)
SetConnectionStringCheck_NoThrow(t) ==
    /\ pc[t] = "sc_check"
    /\ Advance(t, "sc_assign")
    /\ UNCHANGED <<arg, ret, holderVars, payloadVars>>

SetConnectionStringCheck(t) ==
    /\ pc[t] = "sc_check"
    /\ IF is_connected_
       THEN Return(t, <<"throw", "Cannot change connection string while connected">>)
       ELSE Advance(t, "sc_assign") /\ UNCHANGED <<arg, ret>>
    /\ UNCHANGED <<holderVars, payloadVars>>

\* what an assignment of s leaves in connection_string_: s, unless another
\* thread is assigning it at the same time without any lock (a data race on
\* a std::string), and then either string or a torn one
AssignedString(t, s) ==
    IF \E u \in Threads \ {t} : pc[u] = "sc_assign"
    THEN {s, "<torn>"} \cup {arg[u][1] : u \in {v \in Threads \ {t} : pc[v] = "sc_assign"}}
    ELSE {s}

\* connection_string_ = connectionString
SetConnectionStringAssign(t) ==
    /\ pc[t] = "sc_assign"
    /\ connection_string_' \in AssignedString(t, arg[t][1])
    /\ Return(t, NoValue)
    /\ UNCHANGED <<holderVars, singletonVars, configVars, loggerVars,
                   is_connected_, query_history_, query_mutex_, didSetup>>

DatabaseStep(t) ==
    \/ ConnectCheck(t) \/ ConnectSetup(t) \/ ConnectStore(t) \/ ConnectReturn(t)
    \/ DisconnectCheck(t) \/ DisconnectStore(t)
    \/ ExecuteQueryCheck(t) \/ ExecuteQueryLock(t) \/ ExecuteQueryBody(t)
    \/ GetQueryHistoryLock(t) \/ GetQueryHistoryBody(t)
    \/ SetConnectionStringCheck(t) \/ SetConnectionStringAssign(t)

\* --------------------------------------------------------------- Logger
\* LogEntry(l, msg, cat) (the timestamp is not modelled)
LogEntry(l, msg, cat) == [level |-> l, message |-> msg, category |-> cat]

\* the threads that are inside log()
InLog == {u \in Threads : pc[u] \in {"lg_check", "lg_lock", "lg_body"}}

\* std::lock_guard<std::mutex> lock(log_mutex_)
LogLock(t, p, q) ==
    /\ pc[t] = p
    /\ log_mutex_ = Free
    /\ log_mutex_' = t
    /\ Advance(t, q)
    /\ UNCHANGED <<arg, ret, holderVars, singletonVars, configVars, dbVars,
                   logs_, min_level_>>

\* void setLogLevel(LogLevel level)
SetLogLevelCall(t, level) ==
    /\ HasRef(t, "Logger")
    /\ Begin(t, "sl_lock", <<level>>)
    /\ UNCHANGED <<holderVars, payloadVars>>

SetLogLevelLock(t) == LogLock(t, "sl_lock", "sl_body")

SetLogLevelBody(t) ==
    /\ pc[t] = "sl_body"
    /\ min_level_' = arg[t][1]
    /\ log_mutex_' = Free
    /\ Return(t, NoValue)
    /\ UNCHANGED <<holderVars, singletonVars, configVars, dbVars, logs_>>

\* void log(LogLevel level, const std::string& message, const std::string& category)
LogCall(t, level, message, category) ==
    /\ HasRef(t, "Logger")
    /\ Len(logs_) + Cardinality(InLog) < MaxLogs
    /\ Begin(t, "lg_check", <<level, message, category>>)
    /\ UNCHANGED <<holderVars, payloadVars>>

\* level >= min_level_
Passes_Strict(level, min) == level > min

Passes(level, min) == level >= min

\* if (level >= min_level_), read before the lock is taken
LogCheck(t) ==
    /\ pc[t] = "lg_check"
    /\ IF Passes(arg[t][1], min_level_)
       THEN Advance(t, "lg_lock") /\ UNCHANGED <<arg, ret>>
       ELSE Return(t, NoValue)
    /\ UNCHANGED <<holderVars, payloadVars>>

LogLockStep(t) == LogLock(t, "lg_lock", "lg_body")

\* logs_.emplace_back(level, message, category), and the line on the console
LogBody(t) ==
    /\ pc[t] = "lg_body"
    /\ logs_' = Append(logs_, LogEntry(arg[t][1], arg[t][2], arg[t][3]))
    /\ log_mutex_' = Free
    /\ Return(t, NoValue)
    /\ UNCHANGED <<holderVars, singletonVars, configVars, dbVars, min_level_>>

\* std::vector<LogEntry> getLogs() const
GetLogsCall(t) ==
    /\ HasRef(t, "Logger")
    /\ Begin(t, "gl_lock", <<>>)
    /\ UNCHANGED <<holderVars, payloadVars>>

GetLogsLock(t) == LogLock(t, "gl_lock", "gl_body")

GetLogsBody(t) ==
    /\ pc[t] = "gl_body"
    /\ log_mutex_' = Free
    /\ Return(t, <<"vector", logs_>>)
    /\ UNCHANGED <<holderVars, singletonVars, configVars, dbVars, logs_, min_level_>>

\* the entries of s whose level is l (the loop of getLogs(LogLevel))
FilterLevel(s, l) == SelectSeq(s, LAMBDA e : e.level = l)

\* std::vector<LogEntry> getLogs(LogLevel level) const
GetLogsByLevelCall(t, level) ==
    /\ HasRef(t, "Logger")
    /\ Begin(t, "gf_lock", <<level>>)
    /\ UNCHANGED <<holderVars, payloadVars>>

GetLogsByLevelLock(t) == LogLock(t, "gf_lock", "gf_body")

GetLogsByLevelBody(t) ==
    /\ pc[t] = "gf_body"
    /\ log_mutex_' = Free
    /\ Return(t, <<"vector", FilterLevel(logs_, arg[t][1])>>)
    /\ UNCHANGED <<holderVars, singletonVars, configVars, dbVars, logs_, min_level_>>

\* void clearLogs()
ClearLogsCall(t) ==
    /\ HasRef(t, "Logger")
    /\ Begin(t, "cl_lock", <<>>)
    /\ UNCHANGED <<holderVars, payloadVars>>

ClearLogsLock(t) == LogLock(t, "cl_lock", "cl_body")

ClearLogsBody(t) ==
    /\ pc[t] = "cl_body"
    /\ logs_' = <<>>
    /\ log_mutex_' = Free
    /\ Return(t, NoValue)
    /\ UNCHANGED <<holderVars, singletonVars, configVars, dbVars, min_level_>>

\* size_t getLogCount() const
GetLogCountCall(t) ==
    /\ HasRef(t, "Logger")
    /\ Begin(t, "ln_lock", <<>>)
    /\ UNCHANGED <<holderVars, payloadVars>>

GetLogCountLock(t) == LogLock(t, "ln_lock", "ln_body")

GetLogCountBody(t) ==
    /\ pc[t] = "ln_body"
    /\ log_mutex_' = Free
    /\ Return(t, <<"size", Len(logs_)>>)
    /\ UNCHANGED <<holderVars, singletonVars, configVars, dbVars, logs_, min_level_>>

LoggerStep(t) ==
    \/ SetLogLevelLock(t) \/ SetLogLevelBody(t)
    \/ LogCheck(t) \/ LogLockStep(t) \/ LogBody(t)
    \/ GetLogsLock(t) \/ GetLogsBody(t)
    \/ GetLogsByLevelLock(t) \/ GetLogsByLevelBody(t)
    \/ ClearLogsLock(t) \/ ClearLogsBody(t)
    \/ GetLogCountLock(t) \/ GetLogCountBody(t)

\* ------------------------------------------------------ the callers
\* the calls a thread may begin on each payload, with arguments drawn from
\* the given sets
SingletonCalls(t, items, longest) ==
    \/ \E item \in items : AddDataCall(t, item, longest)
    \/ GetDataCall(t)
    \/ ClearDataCall(t)
    \/ GetDataCountCall(t)

ConfigCalls(t, keys, values) ==
    \/ \E key \in keys : ConfigGetCall(t, key)
    \/ \E key \in keys, value \in values : ConfigSetCall(t, key, value)
    \/ ConfigGetAllCall(t)
    \/ \E key \in keys : ConfigHasKeyCall(t, key)
    \/ \E key \in keys : ConfigRemoveCall(t, key)

DatabaseCalls(t, queries, strings) ==
    \/ ConnectCall(t)
    \/ DisconnectCall(t)
    \/ \E query \in queries : ExecuteQueryCall(t, query)
    \/ GetQueryHistoryCall(t)
    \/ IsConnected(t)
    \/ GetConnectionString(t)
    \/ \E str \in strings : SetConnectionStringCall(t, str)

LoggerCalls(t, levels, messages, categories) ==
    \/ \E level \in levels : SetLogLevelCall(t, level)
    \/ \E level \in levels, message \in messages, category \in categories :
            LogCall(t, level, message, category)
    \/ GetLogsCall(t)
    \/ \E level \in levels : GetLogsByLevelCall(t, level)
    \/ ClearLogsCall(t)
    \/ GetLogCountCall(t)

\* a step of the call thread t is running
Step(t) ==
    \/ GetInstanceStep(t)
    \/ SingletonStep(t)
    \/ ConfigStep(t)
    \/ DatabaseStep(t)
    \/ LoggerStep(t)

\* a thread begins a call on any of the four singletons
Call(t) ==
    \/ \E h \in Holders : GetInstanceCall(t, h)
    \/ SingletonCalls(t, {"item"}, MaxData)
    \/ ConfigCalls(t, {"debug"}, {"true"})
    \/ DatabaseCalls(t, {"SELECT 1"}, {"mongodb://other"})
    \/ LoggerCalls(t, {INFO, WARN}, {"m"}, {""})

\* a run of at most MaxCalls calls on the four singletons
Init == ProgInit /\ LibInit /\ budget = MaxCalls /\ pre = NotRecorded

\* threads run in parallel: any thread takes the next step of its call, or
\* begins a call
Next == \E t \in Callers : Call(t) \/ Step(t)

Spec == Init /\ [][Next]_vars

\* ------------------------------------------- runs of getInstance() alone
\* any number of calls of getInstance() on the four holders, from all threads
HolderInit == ProgInit /\ LibInit /\ budget = Unlimited /\ pre = NotRecorded

HolderNext ==
    \E t \in Threads :
        \/ \E h \in Holders : GetInstanceCall(t, h)
        \/ GetInstanceStep(t)

HolderSpec == HolderInit /\ [][HolderNext]_vars

\* runs of getInstance() on two of the holders when a construction may fail
RetryNext ==
    \E t \in Threads :
        \/ \E h \in {"Singleton", "DatabaseConnection"} : GetInstanceCall(t, h)
        \/ GetInstanceStep(t)
        \/ GetInstanceConstructThrows(t)

RetrySpec == HolderInit /\ [][RetryNext]_vars

\* ------------------------------------------- concurrent use of the data bag
\* a caller appends an item of its own, once, to the vector its getData()
\* returned
ChangeCopy(t, item) ==
    /\ pc[t] = "idle"
    /\ ret[t][1] = "vector"
    /\ \A i \in DOMAIN ret[t][2] : ret[t][2][i] # item
    /\ ret' = [ret EXCEPT ![t] = <<"vector", Append(@[2], item)>>]
    /\ UNCHANGED <<pc, arg, holderVars, payloadVars, envVars, libVars>>

\* the threads get the Singleton and use its data bag in parallel, any
\* number of times; the main thread appends "a" and the others "b"
BagNext ==
    \E t \in Callers :
        \/ GetInstanceCall(t, "Singleton")
        \/ GetInstanceStep(t)
        \/ SingletonCalls(t, {IF t = Main THEN "a" ELSE "b"}, MaxBag)
        \/ SingletonStep(t)
        \/ ChangeCopy(t, "mine")

BagSpec == HolderInit /\ [][BagNext]_vars

\* ------------------------------------ single-threaded use of one payload
\* the record a recording run starts with: no call has begun
NoCallYet == [on |-> TRUE, by |-> Main, at |-> "none", arg |-> <<>>,
              sets |-> NoConfig,
              data |-> <<>>, config |-> NoConfig,
              str |-> "", conn |-> FALSE, hist |-> <<>>,
              logs |-> <<>>, min |-> DEBUG]

SeqInit == ProgInit /\ LibInit /\ budget = Unlimited /\ pre = NoCallYet

\* one thread uses the DatabaseConnection payload, one call after the other
DbSeqNext ==
    \E t \in {Main} :
        \/ GetInstanceCall(t, "DatabaseConnection")
        \/ GetInstanceStep(t)
        \/ DatabaseCalls(t, {"SELECT 1", "SELECT 2"}, {"mongodb://other"})
        \/ DatabaseStep(t)

DbSeqSpec == SeqInit /\ [][DbSeqNext]_vars

\* the callers use the DatabaseConnection payload in parallel, any number
\* of times
DbConcNext ==
    \E t \in Callers :
        \/ GetInstanceCall(t, "DatabaseConnection")
        \/ GetInstanceStep(t)
        \/ DatabaseCalls(t, {"SELECT 1"}, {"mongodb://other"})
        \/ DatabaseStep(t)

DbConcSpec == HolderInit /\ [][DbConcNext]_vars

\* one thread uses the Logger payload, one call after the other
LoggerSeqNext ==
    \E t \in {Main} :
        \/ GetInstanceCall(t, "Logger")
        \/ GetInstanceStep(t)
        \/ LoggerCalls(t, LogLevels, {"m"}, {"", "net"})
        \/ LoggerStep(t)

LoggerSeqSpec == SeqInit /\ [][LoggerSeqNext]_vars

\* one thread uses the ConfigManager payload, one call after the other; the
\* keys are one of the constructor's and one of the caller's own
ConfigSeqNext ==
    \E t \in {Main} :
        \/ GetInstanceCall(t, "ConfigManager")
        \/ GetInstanceStep(t)
        \/ ConfigCalls(t, {"debug", "mode"}, {"true", "fast"})
        \/ ConfigStep(t)

ConfigSeqSpec == SeqInit /\ [][ConfigSeqNext]_vars

\* ------------------------------------------------------ fair scheduling
\* the scheduler lets every thread that can take a step of its call take
\* one eventually (a thread need not begin a call)
FairSpec == Spec /\ \A t \in Callers : WF_vars(Step(t))

\* =================================================== the library classes
\* the caller's side of an operation on a library object: it is counted
\* against the run's budget and its kind is remembered
LibOp(op) ==
    /\ budget # 0
    /\ budget' = IF budget = Unlimited THEN Unlimited ELSE budget - 1
    /\ lastOp' = op
    /\ UNCHANGED <<pre, progVars>>

\* an operation on one of the builders, which leaves the other library
\* objects alone; the fluent calls return the builder, build() the product
BuilderOp(op) ==
    /\ LibOp(op)
    /\ libRet' = NoValue
    /\ UNCHANGED <<protoVars, factoryVars, adapterVars, bridgeVars, shapeVars>>

\* --------------------------------------------- ConcreteComputerBuilder
\* computer->field = value; return *this
ComputerSet(field, value) ==
    /\ computerHeap' = [computerHeap EXCEPT ![b_computer][field] = value]
    /\ UNCHANGED <<b_computer, builtComputers, sqlVars, httpVars>>

SetCPU(cpu) == BuilderOp("set") /\ ComputerSet("cpu", cpu)
SetMemory(memory) == BuilderOp("set") /\ ComputerSet("memory", memory)
SetStorage(storage) == BuilderOp("set") /\ ComputerSet("storage", storage)
SetGraphics(graphics) == BuilderOp("set") /\ ComputerSet("graphics", graphics)
SetMotherboard(motherboard) == BuilderOp("set") /\ ComputerSet("motherboard", motherboard)
SetPowerSupply(powerSupply) == BuilderOp("set") /\ ComputerSet("powerSupply", powerSupply)
SetCoolingSystem(cooling) == BuilderOp("set") /\ ComputerSet("coolingSystem", cooling)
SetNetworkCard(network) == BuilderOp("set") /\ ComputerSet("networkCard", network)
SetWarranty(years) == BuilderOp("set") /\ ComputerSet("warranty", years)

\* auto result = std::move(computer); computer = std::make_unique<Computer>();
\* return result: the object filled so far, as it is or after the director
\* has set all its fields to spec, goes to the caller
ComputerBuildAs_Alias(spec) ==
    /\ computerHeap' = [computerHeap EXCEPT ![b_computer] = spec]
    /\ builtComputers' = Append(builtComputers, b_computer)
    /\ UNCHANGED <<b_computer, sqlVars, httpVars>>

ComputerBuildAs(spec) ==
    /\ computerHeap' = Append([computerHeap EXCEPT ![b_computer] = spec],
                              DefaultComputer)
    /\ b_computer' = Len(computerHeap) + 1
    /\ builtComputers' = Append(builtComputers, b_computer)
    /\ UNCHANGED <<sqlVars, httpVars>>

ComputerBuild == BuilderOp("ConcreteComputerBuilder::build") /\ ComputerBuildAs(computerHeap[b_computer])

\* ------------------------------------------------------ ComputerDirector
GamingComputer ==
    [cpu |-> "Intel i9-13900K", memory |-> "32GB DDR5-5600",
     storage |-> "1TB NVMe SSD", graphics |-> "NVIDIA RTX 4080",
     motherboard |-> "ASUS ROG Strix Z790-E",
     powerSupply |-> "850W 80+ Gold Modular",
     coolingSystem |-> "AIO Liquid Cooler 280mm",
     networkCard |-> "Wi-Fi 6E + Ethernet", warranty |-> 3]

OfficeComputer ==
    [cpu |-> "Intel i5-13400", memory |-> "16GB DDR4-3200",
     storage |-> "512GB SATA SSD", graphics |-> "Integrated Intel UHD",
     motherboard |-> "MSI B760M Pro-A", powerSupply |-> "500W 80+ Bronze",
     coolingSystem |-> "Stock CPU Cooler", networkCard |-> "Ethernet",
     warranty |-> 1]

WorkstationComputer ==
    [cpu |-> "Intel i7-13700K", memory |-> "64GB DDR5-4800",
     storage |-> "2TB NVMe SSD", graphics |-> "NVIDIA RTX 4070",
     motherboard |-> "ASUS Pro WS W790-ACE",
     powerSupply |-> "750W 80+ Platinum",
     coolingSystem |-> "Tower Air Cooler",
     networkCard |-> "Wi-Fi 6 + Dual Ethernet", warranty |-> 5]

\* the director sets every field through the builder and then builds
BuildGamingComputer == BuilderOp("ComputerDirector") /\ ComputerBuildAs(GamingComputer)
BuildOfficeComputer == BuilderOp("ComputerDirector") /\ ComputerBuildAs(OfficeComputer)
BuildWorkstationComputer ==
    BuilderOp("ComputerDirector") /\ ComputerBuildAs(WorkstationComputer)

\* ------------------------------------------------------ SQLQueryBuilder
\* query->field = value; return *this
QuerySet(field, value) ==
    /\ queryHeap' = [queryHeap EXCEPT ![b_query][field] = value]
    /\ UNCHANGED <<b_query, builtQueries, computerVars, httpVars>>

\* query->field.push_back(value); return *this
QueryPush_Front(field, value) ==
    QuerySet(field, <<value>> \o queryHeap[b_query][field])

QueryPush(field, value) ==
    QuerySet(field, Append(queryHeap[b_query][field], value))

SQLSelect(columns) == BuilderOp("set") /\ QuerySet("selectColumns", columns)
SQLFrom(table) == BuilderOp("set") /\ QuerySet("fromTable", table)
SQLJoin(table, condition) ==
    BuilderOp("set") /\ QueryPush("joins", "JOIN " \o table \o " ON " \o condition)
SQLLeftJoin(table, condition) ==
    BuilderOp("set") /\ QueryPush("joins", "LEFT JOIN " \o table \o " ON " \o condition)
SQLWhere(condition) == BuilderOp("set") /\ QueryPush("whereConditions", condition)
SQLGroupBy(columns) == BuilderOp("set") /\ QuerySet("groupByColumns", columns)
SQLHaving(condition) == BuilderOp("set") /\ QueryPush("havingConditions", condition)
SQLOrderBy(column, direction) ==
    BuilderOp("set") /\ QueryPush("orderByColumns", column \o " " \o direction)
SQLLimit(count) == BuilderOp("set") /\ QuerySet("limitCount", count)
SQLOffset(count) == BuilderOp("set") /\ QuerySet("offsetCount", count)

\* auto result = std::move(query); query = std::make_unique<SQLQuery>();
\* return result
SQLBuild_NoReset ==
    /\ BuilderOp("SQLQueryBuilder::build")
    /\ queryHeap' = Append(queryHeap, queryHeap[b_query])
    /\ b_query' = Len(queryHeap) + 1
    /\ builtQueries' = Append(builtQueries, b_query)
    /\ UNCHANGED <<computerVars, httpVars>>

SQLBuild ==
    /\ BuilderOp("SQLQueryBuilder::build")
    /\ queryHeap' = Append(queryHeap, DefaultQuery)
    /\ b_query' = Len(queryHeap) + 1
    /\ builtQueries' = Append(builtQueries, b_query)
    /\ UNCHANGED <<computerVars, httpVars>>

\* operator<<(std::ostream&, int): the decimal digits, a minus sign first
\* for a negative number
Digit(d) ==
    CASE d = 0 -> "0" [] d = 1 -> "1" [] d = 2 -> "2" [] d = 3 -> "3"
      [] d = 4 -> "4" [] d = 5 -> "5" [] d = 6 -> "6" [] d = 7 -> "7"
      [] d = 8 -> "8" [] d = 9 -> "9"

RECURSIVE Decimal(_)
Decimal(n) ==
    IF n < 0 THEN "-" \o Decimal(0 - n)
    ELSE IF n < 10 THEN Digit(n)
    ELSE Decimal(n \div 10) \o Digit(n % 10)

\* for (i = 0; i < v.size(); ++i) { if (i > 0) oss << sep; oss << v[i]; }:
\* the pieces written, in the order they are written
Separated(v, sep) ==
    [i \in 1..(2 * Len(v) - 1) |-> IF i % 2 = 1 THEN v[(i + 1) \div 2] ELSE sep]

\* the pieces SQLQuery::toString writes to its stream, in the order it
\* writes them
QueryPieces(q) ==
    (IF q.selectColumns # <<>>
        THEN <<"SELECT ">> \o Separated(q.selectColumns, ", ") ELSE <<>>)
    \o (IF q.fromTable # "" THEN <<" FROM ", q.fromTable>> ELSE <<>>)
    \o [i \in 1..(2 * Len(q.joins)) |->
            IF i % 2 = 1 THEN " " ELSE q.joins[i \div 2]]
    \o (IF q.whereConditions # <<>>
        THEN <<" WHERE ">> \o Separated(q.whereConditions, " AND ") ELSE <<>>)
    \o (IF q.groupByColumns # <<>>
        THEN <<" GROUP BY ">> \o Separated(q.groupByColumns, ", ") ELSE <<>>)
    \o (IF q.havingConditions # <<>>
        THEN <<" HAVING ">> \o Separated(q.havingConditions, " AND ") ELSE <<>>)
    \o (IF q.orderByColumns # <<>>
        THEN <<" ORDER BY ">> \o Separated(q.orderByColumns, ", ") ELSE <<>>)
    \o (IF q.limitCount >= 0 THEN <<" LIMIT ", Decimal(q.limitCount)>> ELSE <<>>)
    \o (IF q.offsetCount >= 0 THEN <<" OFFSET ", Decimal(q.offsetCount)>> ELSE <<>>)

\* oss.str(): the pieces written, one after the other
RECURSIVE Written(_)
Written(pieces) ==
    IF pieces = <<>> THEN "" ELSE Head(pieces) \o Written(Tail(pieces))

\* std::string SQLQuery::toString() const
QueryToString(q) == Written(QueryPieces(q))

\* --------------------------------------------------- HttpRequestBuilder
\* request->field = value; return *this
RequestSet(field, value) ==
    /\ requestHeap' = [requestHeap EXCEPT ![b_request][field] = value]
    /\ UNCHANGED <<b_request, builtRequests, computerVars, sqlVars>>

HttpMethod(method) == BuilderOp("set") /\ RequestSet("method", method)
HttpUrl(url) == BuilderOp("set") /\ RequestSet("url", url)
\* request->headers.add(key, value): headers.emplace_back(key, value)
HttpHeader(key, value) ==
    BuilderOp("set") /\ RequestSet("headers",
               Append(requestHeap[b_request].headers, <<key, value>>))
HttpBody(body) == BuilderOp("set") /\ RequestSet("body", body)
\* request->body = data; request->headers.add("Content-Type", "application/json")
HttpJson(data) ==
    /\ BuilderOp("set")
    /\ requestHeap' =
          [requestHeap EXCEPT
              ![b_request].body = data,
              ![b_request].headers =
                  Append(@, <<"Content-Type", "application/json">>)]
    /\ UNCHANGED <<b_request, builtRequests, computerVars, sqlVars>>
HttpTimeout(ms) == BuilderOp("set") /\ RequestSet("timeout", ms)
HttpRetries(count) == BuilderOp("set") /\ RequestSet("retries", count)

\* auto result = std::move(request); request = std::make_unique<HttpRequest>();
\* return result
HttpBuild ==
    /\ BuilderOp("HttpRequestBuilder::build")
    /\ requestHeap' = Append(requestHeap, DefaultRequest)
    /\ b_request' = Len(requestHeap) + 1
    /\ builtRequests' = Append(builtRequests, b_request)
    /\ UNCHANGED <<computerVars, sqlVars>>

\* ---------------------------------------------- callers of the builders
\* the operations of the three builders and of the director
ComputerOps ==
    \/ SetCPU("Intel i9-13900K")
    \/ SetMemory("32GB DDR5-5600")
    \/ SetStorage("1TB NVMe SSD")
    \/ SetGraphics("NVIDIA RTX 4080")
    \/ SetMotherboard("MSI B760M Pro-A")
    \/ SetPowerSupply("500W 80+ Bronze")
    \/ SetCoolingSystem("Stock CPU Cooler")
    \/ SetNetworkCard("Ethernet")
    \/ SetWarranty(2)
    \/ ComputerBuild
    \/ BuildGamingComputer
    \/ BuildOfficeComputer
    \/ BuildWorkstationComputer

SQLOps(columns, tables, conditions, groupConditions, counts) ==
    \/ \E c \in columns : SQLSelect(c)
    \/ \E t \in tables : SQLFrom(t)
    \/ \E t \in tables : SQLJoin(t, "a = b")
    \/ \E t \in tables : SQLLeftJoin(t, "a = b")
    \/ \E c \in conditions : SQLWhere(c)
    \/ \E c \in columns : SQLGroupBy(c)
    \/ \E c \in groupConditions : SQLHaving(c)
    \/ \E c \in columns : SQLOrderBy(c[1], "ASC")
    \/ \E n \in counts : SQLLimit(n)
    \/ \E n \in counts : SQLOffset(n)
    \/ SQLBuild

HttpOps ==
    \/ HttpMethod("POST")
    \/ HttpUrl("https://api.example.com/users")
    \/ HttpHeader("Accept", "*/*")
    \/ HttpBody("payload")
    \/ HttpJson("{}")
    \/ HttpTimeout(5000)
    \/ HttpRetries(3)
    \/ HttpBuild

\* one caller uses the three builders, at most MaxOps operations in a run
BuilderSpecInit == ProgInit /\ LibInit /\ budget = MaxOps /\ pre = NotRecorded

BuilderNext ==
    \/ ComputerOps
    \/ SQLOps({<<"name">>}, {"users"}, {"age > 18"}, {"COUNT(*) > 1"}, {10})
    \/ HttpOps

BuilderSpec == BuilderSpecInit /\ [][BuilderNext]_vars

\* one caller uses the SQL query builder, at most MaxSqlOps operations in
\* a run
SqlInit == ProgInit /\ LibInit /\ budget = MaxSqlOps /\ pre = NotRecorded

SqlNext ==
    SQLOps({<<"name", "email">>}, {"users"}, {"age > 18", "active = 1"},
           {"COUNT(*) > 1"}, {10})

SqlSpec == SqlInit /\ [][SqlNext]_vars

\* ========================================================== prototypes
\* an operation on a Character or on the registry, which leaves the other
\* library objects alone and returns r
ProtoOp(op, r) ==
    /\ LibOp(op)
    /\ libRet' = r
    /\ UNCHANGED <<builderVars, factoryVars, adapterVars, bridgeVars, shapeVars>>

\* -------------------------------------------------------------- Character
CharacterClasses == {"WARRIOR", "MAGE", "ARCHER", "ROGUE"}

\* Character::Character(charClass, name): the stats, skills and equipment
\* each class starts with
ClassStats(c) ==
    CASE c = "WARRIOR" -> [health |-> 150, mana |-> 20, attack |-> 15,
                           defense |-> 12, speed |-> 8, magic |-> 3]
      [] c = "MAGE" -> [health |-> 80, mana |-> 120, attack |-> 6,
                        defense |-> 4, speed |-> 12, magic |-> 18]
      [] c = "ARCHER" -> [health |-> 100, mana |-> 60, attack |-> 12,
                          defense |-> 8, speed |-> 16, magic |-> 8]
      [] c = "ROGUE" -> [health |-> 90, mana |-> 40, attack |-> 10,
                         defense |-> 6, speed |-> 18, magic |-> 6]

ClassSkills(c) ==
    CASE c = "WARRIOR" -> <<"Sword Mastery", "Shield Block", "Berserker Rage">>
      [] c = "MAGE" -> <<"Fireball", "Ice Shard", "Heal", "Teleport">>
      [] c = "ARCHER" -> <<"Precise Shot", "Multi-Shot", "Eagle Eye">>
      [] c = "ROGUE" -> <<"Stealth", "Backstab", "Lock Picking", "Poison Blade">>

ClassEquipment(c) ==
    CASE c = "WARRIOR" ->
            [k \in {"weapon", "armor", "shield"} |->
                CASE k = "weapon" -> "Iron Sword" [] k = "armor" -> "Chain Mail"
                  [] k = "shield" -> "Wooden Shield"]
      [] c = "MAGE" ->
            [k \in {"weapon", "armor", "accessory"} |->
                CASE k = "weapon" -> "Magic Staff" [] k = "armor" -> "Robes"
                  [] k = "accessory" -> "Spell Focus"]
      [] c = "ARCHER" ->
            [k \in {"weapon", "armor", "accessory"} |->
                CASE k = "weapon" -> "Wooden Bow" [] k = "armor" -> "Leather Armor"
                  [] k = "accessory" -> "Quiver"]
      [] c = "ROGUE" ->
            [k \in {"weapon", "armor", "accessory"} |->
                CASE k = "weapon" -> "Dagger" [] k = "armor" -> "Leather Armor"
                  [] k = "accessory" -> "Thieves' Tools"]

\* std::make_unique<Character>(charClass, name): a new object with a new
\* vector and a new map, held by who
Construct(charClass, name, who) ==
    /\ characters' =
          Append(characters,
                 [characterClass |-> charClass, name |-> name, level |-> 1,
                  stats |-> ClassStats(charClass),
                  skills |-> Len(stringVectors) + 1,
                  equipment |-> Len(stringMaps) + 1])
    /\ stringVectors' = Append(stringVectors, ClassSkills(charClass))
    /\ stringMaps' = Append(stringMaps, ClassEquipment(charClass))
    /\ owner' = Append(owner, who)
    /\ cloneOf' = Append(cloneOf, 0)

\* std::make_unique<Character>(*this) with Character(const Character& other):
\* every member is copy-constructed, the vector and the map into storage of
\* their own
CopyConstruct_Shallow(i, who) ==
    /\ characters' = Append(characters, characters[i])
    /\ UNCHANGED <<stringVectors, stringMaps>>
    /\ owner' = Append(owner, who)
    /\ cloneOf' = Append(cloneOf, i)

CopyConstruct(i, who) ==
    /\ characters' =
          Append(characters,
                 [characters[i] EXCEPT !.skills = Len(stringVectors) + 1,
                                       !.equipment = Len(stringMaps) + 1])
    /\ stringVectors' = Append(stringVectors, stringVectors[characters[i].skills])
    /\ stringMaps' = Append(stringMaps, stringMaps[characters[i].equipment])
    /\ owner' = Append(owner, who)
    /\ cloneOf' = Append(cloneOf, i)

\* the Characters the caller holds a unique_ptr to
Held == {i \in 1..Len(characters) : owner[i] = "caller"}

\* PrototypeFactory::createWarrior(name) and its like
CreateWarrior(name) ==
    /\ ProtoOp("create", <<"create", Len(characters) + 1>>)
    /\ Construct("WARRIOR", name, "caller")
    /\ UNCHANGED prototypes

CreateMage(name) ==
    /\ ProtoOp("create", <<"create", Len(characters) + 1>>)
    /\ Construct("MAGE", name, "caller")
    /\ UNCHANGED prototypes

CreateArcher(name) ==
    /\ ProtoOp("create", <<"create", Len(characters) + 1>>)
    /\ Construct("ARCHER", name, "caller")
    /\ UNCHANGED prototypes

CreateRogue(name) ==
    /\ ProtoOp("create", <<"create", Len(characters) + 1>>)
    /\ Construct("ROGUE", name, "caller")
    /\ UNCHANGED prototypes

\* std::unique_ptr<Prototype> Character::clone() const
CharacterClone(i) ==
    /\ i \in Held
    /\ ProtoOp("clone", <<"clone", i, Len(characters) + 1>>)
    /\ CopyConstruct(i, "caller")
    /\ UNCHANGED prototypes

\* this->name = name
CharacterSetName(i, name) ==
    /\ i \in Held
    /\ ProtoOp("setName", <<"setName", i>>)
    /\ characters' = [characters EXCEPT ![i].name = name]
    /\ UNCHANGED <<stringVectors, stringMaps, owner, cloneOf, prototypes>>

\* this->level = level
CharacterSetLevel(i, level) ==
    /\ i \in Held
    /\ ProtoOp("setLevel", <<"setLevel", i>>)
    /\ characters' = [characters EXCEPT ![i].level = level]
    /\ UNCHANGED <<stringVectors, stringMaps, owner, cloneOf, prototypes>>

\* skills.push_back(skill)
CharacterAddSkill(i, skill) ==
    /\ i \in Held
    /\ ProtoOp("addSkill", <<"addSkill", i>>)
    /\ stringVectors' = [stringVectors EXCEPT ![characters[i].skills] = Append(@, skill)]
    /\ UNCHANGED <<characters, stringMaps, owner, cloneOf, prototypes>>

\* equipment[slot] = item
CharacterSetEquipment(i, slot, item) ==
    /\ i \in Held
    /\ ProtoOp("setEquipment", <<"setEquipment", i>>)
    /\ stringMaps' = [stringMaps EXCEPT ![characters[i].equipment] = MapPut(@, slot, item)]
    /\ UNCHANGED <<characters, stringVectors, owner, cloneOf, prototypes>>

\* this->stats = stats
CharacterSetStats(i, stats) ==
    /\ i \in Held
    /\ ProtoOp("setStats", <<"setStats", i>>)
    /\ characters' = [characters EXCEPT ![i].stats = stats]
    /\ UNCHANGED <<stringVectors, stringMaps, owner, cloneOf, prototypes>>

\* int Character::getLevel() const
CharacterGetLevel(i) ==
    /\ i \in Held
    /\ ProtoOp("getLevel", <<"getLevel", i, characters[i].level>>)
    /\ UNCHANGED protoVars

\* ------------------------------------------------------ PrototypeRegistry
\* the Character that key k is bound to, or Null
Stored(k) == IF k \in DOMAIN prototypes THEN prototypes[k] ELSE Null

\* prototypes[key] = std::move(prototype): the caller's Character becomes
\* the registry's; the one the key was bound to is destroyed
RegisterPrototype(key, i) ==
    /\ i \in Held
    /\ ProtoOp("registerPrototype", <<"registerPrototype", key, i>>)
    /\ prototypes' = MapPut(prototypes, key, i)
    /\ owner' = [j \in 1..Len(owner) |->
                    IF j = i THEN "registry"
                    ELSE IF j = Stored(key) THEN "destroyed" ELSE owner[j]]
    /\ UNCHANGED <<characters, stringVectors, stringMaps, cloneOf>>

\* auto it = prototypes.find(key);
\* if (it != prototypes.end()) return it->second->clone(); return nullptr
CreateClone(key) ==
    IF key \in DOMAIN prototypes
    THEN /\ ProtoOp("createClone", <<"createClone", key, Len(characters) + 1>>)
         /\ CopyConstruct(prototypes[key], "caller")
         /\ UNCHANGED prototypes
    ELSE /\ ProtoOp("createClone", <<"createClone", key, Null>>)
         /\ UNCHANGED protoVars

\* return prototypes.find(key) != prototypes.end()
HasPrototype(key) ==
    /\ ProtoOp("hasPrototype", <<"hasPrototype", key, key \in DOMAIN prototypes>>)
    /\ UNCHANGED protoVars

\* prototypes.erase(key): the Character the key was bound to is destroyed
RemovePrototype(key) ==
    /\ ProtoOp("removePrototype", <<"removePrototype", key>>)
    /\ prototypes' = MapErase(prototypes, key)
    /\ owner' = [j \in 1..Len(owner) |->
                    IF j = Stored(key) THEN "destroyed" ELSE owner[j]]
    /\ UNCHANGED <<characters, stringVectors, stringMaps, cloneOf>>

\* the keys of the runs, in the order of std::string's operator<
KeyOrder ==
    <<"archer_template", "hero", "mage_template", "rogue_template",
      "warrior_template">>

\* a < b for two std::strings
StringLess(a, b) ==
    (CHOOSE i \in 1..Len(KeyOrder) : KeyOrder[i] = a) <
        (CHOOSE i \in 1..Len(KeyOrder) : KeyOrder[i] = b)

\* std::sort(keys.begin(), keys.end())
RECURSIVE InsertSorted(_, _)
InsertSorted(x, v) ==
    IF v = <<>> THEN <<x>>
    ELSE IF StringLess(x, Head(v)) THEN <<x>> \o v
    ELSE <<Head(v)>> \o InsertSorted(x, Tail(v))

RECURSIVE Sort(_)
Sort(v) == IF v = <<>> THEN <<>> ELSE InsertSorted(Head(v), Sort(Tail(v)))

\* the orders in which a loop over an unordered_map may visit the keys K
Orders(K) ==
    {v \in [1..Cardinality(K) -> K] : \A k \in K : \E i \in DOMAIN v : v[i] = k}

\* for (const auto& pair : prototypes) keys.push_back(pair.first);
\* std::sort(keys.begin(), keys.end()); return keys
GetAvailablePrototypes_Unsorted ==
    \E keys \in Orders(DOMAIN prototypes) :
        /\ ProtoOp("getAvailablePrototypes", <<"getAvailablePrototypes", keys>>)
        /\ UNCHANGED protoVars

GetAvailablePrototypes ==
    \E keys \in Orders(DOMAIN prototypes) :
        /\ ProtoOp("getAvailablePrototypes", <<"getAvailablePrototypes", Sort(keys)>>)
        /\ UNCHANGED protoVars

\* prototypes.clear(): every stored Character is destroyed
Clear ==
    /\ ProtoOp("clear", <<"clear">>)
    /\ prototypes' = [k \in {} |-> 0]
    /\ owner' = [j \in 1..Len(owner) |->
                    IF owner[j] = "registry" THEN "destroyed" ELSE owner[j]]
    /\ UNCHANGED <<characters, stringVectors, stringMaps, cloneOf>>

\* the keys, classes and names of registerCommonCharacters
CommonCharacters ==
    <<[key |-> "warrior_template", class |-> "WARRIOR", name |-> "Warrior Template"],
      [key |-> "mage_template", class |-> "MAGE", name |-> "Mage Template"],
      [key |-> "archer_template", class |-> "ARCHER", name |-> "Archer Template"],
      [key |-> "rogue_template", class |-> "ROGUE", name |-> "Rogue Template"]>>

\* registerPrototype(key, PrototypeFactory::createX(name)) for each of the
\* four: four Characters are made and bound, one after the other
RegisterCommonCharacters ==
    LET n == Len(CommonCharacters)
        keys == {CommonCharacters[j].key : j \in 1..n}
        At(k) == CHOOSE j \in 1..n : CommonCharacters[j].key = k
    IN  /\ ProtoOp("registerCommonCharacters", <<"registerCommonCharacters">>)
        /\ characters' =
              characters \o
              [j \in 1..n |->
                  [characterClass |-> CommonCharacters[j].class,
                   name |-> CommonCharacters[j].name, level |-> 1,
                   stats |-> ClassStats(CommonCharacters[j].class),
                   skills |-> Len(stringVectors) + j,
                   equipment |-> Len(stringMaps) + j]]
        /\ stringVectors' =
              stringVectors \o [j \in 1..n |-> ClassSkills(CommonCharacters[j].class)]
        /\ stringMaps' =
              stringMaps \o [j \in 1..n |-> ClassEquipment(CommonCharacters[j].class)]
        /\ cloneOf' = cloneOf \o [j \in 1..n |-> 0]
        /\ owner' =
              [j \in 1..Len(owner) |->
                  IF \E k \in keys : j = Stored(k) THEN "destroyed" ELSE owner[j]]
              \o [j \in 1..n |-> "registry"]
        /\ prototypes' =
              [k \in DOMAIN prototypes \cup keys |->
                  IF k \in keys THEN Len(characters) + At(k) ELSE prototypes[k]]

\* -------------------------------------------------- callers of Character
\* the operations on the Characters the caller holds
CharacterOps ==
    \/ CreateWarrior("Aragorn")
    \/ CreateMage("Gandalf")
    \/ CreateArcher("Legolas")
    \/ CreateRogue("Bilbo")
    \/ \E i \in Held : CharacterClone(i)
    \/ \E i \in Held : CharacterSetName(i, "Legolas Clone")
    \/ \E i \in Held : CharacterSetLevel(i, 10)
    \/ \E i \in Held : CharacterAddSkill(i, "Shield Slam")
    \/ \E i \in Held : CharacterSetEquipment(i, "weapon", "Steel Sword")
    \/ \E i \in Held : CharacterSetStats(i, ClassStats("MAGE"))
    \/ \E i \in Held : CharacterGetLevel(i)

\* one caller creates, clones and changes Characters, at most MaxProtoOps
\* operations in a run
CharacterInit == ProgInit /\ LibInit /\ budget = MaxProtoOps /\ pre = NotRecorded

CharacterNext == CharacterOps

CharacterSpec == CharacterInit /\ [][CharacterNext]_vars

\* ------------------------------------------ callers of PrototypeRegistry
RegistryOps(keys) ==
    \/ CreateWarrior("Aragorn")
    \/ \E k \in keys, i \in Held : RegisterPrototype(k, i)
    \/ \E k \in keys : CreateClone(k)
    \/ \E k \in keys : HasPrototype(k)
    \/ \E k \in keys : RemovePrototype(k)
    \/ GetAvailablePrototypes
    \/ Clear
    \/ RegisterCommonCharacters
    \/ \E i \in Held : CharacterSetLevel(i, 10)
    \/ \E i \in Held : CharacterAddSkill(i, "Shield Slam")

\* one caller uses the registry, at most MaxRegistryOps operations in a run
RegistryInit == ProgInit /\ LibInit /\ budget = MaxRegistryOps /\ pre = NotRecorded

RegistryNext == RegistryOps({"hero", "warrior_template"})

RegistrySpec == RegistryInit /\ [][RegistryNext]_vars

\* ================================================================ factories
\* an operation that asks for a factory or for a product of one, which
\* leaves the other library objects alone; r is the operation with its
\* arguments and what it returned or threw
FactoryOp(op, r) ==
    /\ LibOp(op)
    /\ libRet' = r
    /\ UNCHANGED <<builderVars, protoVars, adapterVars, bridgeVars, shapeVars>>

\* the outcome of a call that returns the object made for it, which is the
\* newest of those allocated, and of a call that throws
Made(objects) == <<"unique_ptr", Len(objects) + 1>>
Make(object) == <<"make", object>>
Throws(exception, what) == <<"throw", exception, what>>

\* enum class Platform { WINDOWS, MACOS, LINUX }
WINDOWS == 0
MACOS == 1
LINUX == 2

\* enum class AnimalType { LION, WOLF }
LION == 0
WOLF == 1

\* getPaymentFactory with a last branch that falls back on PayPal
PaymentFactoryFor_Fallback(type, identifier) ==
    IF type = "credit"
    THEN Make([class |-> "CreditCardProcessorFactory", card_number_ |-> identifier])
    ELSE Make([class |-> "PayPalProcessorFactory", email_ |-> identifier])

\* the object getPaymentFactory makes for a type, or the exception it throws
PaymentFactoryFor(type, identifier) ==
    IF type = "credit"
    THEN Make([class |-> "CreditCardProcessorFactory", card_number_ |-> identifier])
    ELSE IF type = "paypal"
    THEN Make([class |-> "PayPalProcessorFactory", email_ |-> identifier])
    ELSE Throws("invalid_argument", "Unknown payment type: " \o type)

\* the object getGUIFactory makes for a platform, or the exception it throws
GUIFactoryFor(platform) ==
    CASE platform = WINDOWS -> Make([class |-> "WindowsFactory"])
      [] platform = MACOS -> Make([class |-> "MacOSFactory"])
      [] platform = LINUX -> Make([class |-> "LinuxFactory"])
      [] OTHER -> Throws("invalid_argument", "Unknown platform")

\* a call that makes the object or throws the exception o
MakeOrThrow(op, a, o) ==
    IF o[1] = "throw"
    THEN /\ FactoryOp(op, <<op, a, o>>)
         /\ UNCHANGED factoryVars
    ELSE /\ FactoryOp(op, <<op, a, Made(factories)>>)
         /\ factories' = Append(factories, o[2])
         /\ UNCHANGED <<products, applications>>

\* std::unique_ptr<PaymentProcessorFactory> getPaymentFactory(type, identifier)
GetPaymentFactory(type, identifier) ==
    /\ TRUE
    /\ MakeOrThrow("getPaymentFactory", <<type, identifier>>,
                   PaymentFactoryFor(type, identifier))

\* std::unique_ptr<GUIFactory> getGUIFactory(Platform platform)
GetGUIFactory(platform) ==
    /\ TRUE
    /\ MakeOrThrow("getGUIFactory", <<platform>>, GUIFactoryFor(platform))

\* explicit WildAnimalFactory(AnimalType type)
WildAnimalFactory(type) ==
    /\ FactoryOp("WildAnimalFactory", <<"WildAnimalFactory", <<type>>, Made(factories)>>)
    /\ factories' = Append(factories, [class |-> "WildAnimalFactory", animal_type_ |-> type])
    /\ UNCHANGED <<products, applications>>


\* a factory method that makes the product or throws the exception o
ProduceOrThrow(op, i, o) ==
    IF o[1] = "throw"
    THEN /\ FactoryOp(op, <<op, <<i>>, o>>)
         /\ UNCHANGED factoryVars
    ELSE /\ FactoryOp(op, <<op, <<i>>, Made(products)>>)
         /\ products' = Append(products, o[2])
         /\ UNCHANGED <<factories, applications>>

\* the factories of each abstract creator
PaymentFactories ==
    {i \in DOMAIN factories :
        factories[i].class \in {"CreditCardProcessorFactory", "PayPalProcessorFactory"}}
\* (a GUI factory that was moved into an Application no longer exists)
GUIFactories ==
    {i \in DOMAIN factories :
        /\ factories[i].class \in {"WindowsFactory", "MacOSFactory", "LinuxFactory"}
        /\ \A a \in DOMAIN applications : applications[a].factory # i}
WildAnimalFactories ==
    {i \in DOMAIN factories : factories[i].class = "WildAnimalFactory"}

\* PaymentProcessorFactory::createProcessor, as each concrete creator
\* overrides it
CreateProcessor(i) ==
    /\ i \in PaymentFactories
    /\ ProduceOrThrow("createProcessor", i,
          IF factories[i].class = "CreditCardProcessorFactory"
          THEN Make([class |-> "CreditCardProcessor",
                     card_number_ |-> factories[i].card_number_])
          ELSE Make([class |-> "PayPalProcessor", email_ |-> factories[i].email_]))

\* every concrete factory making the widgets of Windows
PlatformOf_Windows(i) == "Windows"

\* the platform a GUI factory makes its widgets for
PlatformOf(i) ==
    CASE factories[i].class = "WindowsFactory" -> "Windows"
      [] factories[i].class = "MacOSFactory" -> "MacOS"
      [] factories[i].class = "LinuxFactory" -> "Linux"

\* GUIFactory::createButton, createWindow and createMenu, as each concrete
\* factory overrides them
CreateButton(i) ==
    /\ i \in GUIFactories
    /\ ProduceOrThrow("createButton", i, Make([class |-> PlatformOf(i) \o "Button"]))

CreateWindow(i) ==
    /\ i \in GUIFactories
    /\ ProduceOrThrow("createWindow", i, Make([class |-> PlatformOf(i) \o "Window"]))

CreateMenu(i) ==
    /\ i \in GUIFactories
    /\ ProduceOrThrow("createMenu", i, Make([class |-> PlatformOf(i) \o "Menu"]))

\* Application::Application(std::unique_ptr<GUIFactory> factory): the button,
\* the window and the menu are made by the factory, in this order, and the
\* factory is destroyed with the parameter
NewApplication(i) ==
    /\ i \in GUIFactories
    /\ FactoryOp("Application::Application",
                 <<"Application::Application", <<i>>,
                   <<"object", Len(applications) + 1>> >>)
    /\ products' = products \o <<[class |-> PlatformOf(i) \o "Button"],
                                  [class |-> PlatformOf(i) \o "Window"],
                                  [class |-> PlatformOf(i) \o "Menu"]>>
    /\ applications' = Append(applications,
                              [factory |-> i, button |-> Len(products) + 1,
                               window |-> Len(products) + 2, menu |-> Len(products) + 3])
    /\ UNCHANGED factories

\* std::unique_ptr<Animal> WildAnimalFactory::createAnimal()
CreateAnimal(i) ==
    /\ i \in WildAnimalFactories
    /\ ProduceOrThrow("createAnimal", i,
          CASE factories[i].animal_type_ = LION -> Make([class |-> "Lion"])
            [] factories[i].animal_type_ = WOLF -> Make([class |-> "Wolf"])
            [] OTHER -> Throws("invalid_argument", "Unknown animal type"))

\* ---------------------------------------------------- callers of factories
\* the largest number of operations a caller of the factories runs
MaxFactoryOps == 3

FactoryOps(types, identifiers, platforms, animalTypes) ==
    \/ \E type \in types, identifier \in identifiers :
          GetPaymentFactory(type, identifier)
    \/ \E platform \in platforms : GetGUIFactory(platform)
    \/ \E type \in animalTypes : WildAnimalFactory(type)
    \/ \E i \in DOMAIN factories : CreateProcessor(i)
    \/ \E i \in DOMAIN factories : CreateButton(i)
    \/ \E i \in DOMAIN factories : CreateWindow(i)
    \/ \E i \in DOMAIN factories : CreateMenu(i)
    \/ \E i \in DOMAIN factories : CreateAnimal(i)
    \/ \E i \in DOMAIN factories : NewApplication(i)

FactorySpecInit == ProgInit /\ LibInit /\ budget = MaxFactoryOps /\ pre = NotRecorded

\* a caller asks for factories by selectors that are and that are not among
\* the recognized ones, and for their products
FactoryNext ==
    FactoryOps({"credit", "paypal", "bitcoin", "Credit", ""},
               {"4111111111111111", "user@example.com"},
               {WINDOWS, MACOS, LINUX, 3, -1},
               {LION, WOLF, 2})

FactorySpec == FactorySpecInit /\ [][FactoryNext]_vars

\* ================================================================= adapters
\* an operation on the AudioPlayer or on a MediaAdapter, which leaves the
\* other library objects alone; r is the operation with its arguments, what
\* it returned and the line it wrote to std::cout
AdapterOp(op, r) ==
    /\ LibOp(op)
    /\ libRet' = r
    /\ UNCHANGED <<builderVars, protoVars, factoryVars, bridgeVars, shapeVars>>

\* strings whose characters the code looks at are sequences of characters
mp3 == <<"m", "p", "3">>
mp4 == <<"m", "p", "4">>
vlc == <<"v", "l", "c">>
avi == <<"a", "v", "i">>

\* ::tolower on the characters A..Z of the "C" locale
UpperCase == <<"A", "B", "C", "D", "E", "F", "G", "H", "I", "J", "K", "L", "M",
               "N", "O", "P", "Q", "R", "S", "T", "U", "V", "W", "X", "Y", "Z">>
LowerCase == <<"a", "b", "c", "d", "e", "f", "g", "h", "i", "j", "k", "l", "m",
               "n", "o", "p", "q", "r", "s", "t", "u", "v", "w", "x", "y", "z">>
ToLowerChar(c) ==
    IF \E i \in DOMAIN UpperCase : UpperCase[i] = c
    THEN LowerCase[CHOOSE i \in DOMAIN UpperCase : UpperCase[i] = c]
    ELSE c

\* std::transform(lowerType.begin(), lowerType.end(), lowerType.begin(), ::tolower)
ToLower(str) == [i \in DOMAIN str |-> ToLowerChar(str[i])]

\* isFormatSupported that accepts every type
IsFormatSupported_Any(audioType) == audioType = audioType

\* bool AudioPlayer::isFormatSupported(const std::string& audioType) const
IsFormatSupported(audioType) ==
    LET lowerType == ToLower(audioType)
    IN  lowerType = mp3 \/ lowerType = mp4 \/ lowerType = vlc \/ lowerType = avi

\* MediaAdapter::MediaAdapter(const std::string& audioType): the players
\* that are made (TRUE) and those left null
ConstructMediaAdapter(audioType) ==
    LET lowerType == ToLower(audioType)
    IN  [primaryType |-> audioType,
         mp3Player |-> lowerType = mp3,
         mp4Player |-> lowerType # mp3 /\ lowerType = mp4,
         vlcPlayer |-> lowerType # mp3 /\ lowerType # mp4
                         /\ (lowerType = vlc \/ lowerType = avi)]

\* the line MediaAdapter::play writes for adapter a
MediaAdapterPlayLine(a, audioType, fileName) ==
    LET lowerType == ToLower(audioType)
    IN  IF lowerType = mp3 /\ a.mp3Player
        THEN <<"Playing MP3 file: ", fileName>>
        ELSE IF lowerType = mp4 /\ a.mp4Player
        THEN <<"Extracting and playing audio from MP4 file: ", fileName>>
        ELSE IF lowerType = vlc /\ a.vlcPlayer
        THEN <<"Playing VLC format file: ", fileName>>
        ELSE IF lowerType = avi /\ a.vlcPlayer
        THEN <<"Playing AVI file with VLC: ", fileName>>
        ELSE <<"Unsupported format: ", audioType>>

\* a caller constructs a MediaAdapter of its own
MediaAdapterNew(audioType) ==
    /\ AdapterOp("MediaAdapter::MediaAdapter",
                 <<"MediaAdapter::MediaAdapter", <<audioType>>,
                   <<"object", Len(mediaAdapters) + 1>>, <<>> >>)
    /\ mediaAdapters' = Append(mediaAdapters, ConstructMediaAdapter(audioType))
    /\ UNCHANGED audioPlayer

\* void MediaAdapter::play(audioType, fileName), on the caller's adapter i
MediaAdapterPlay(i, audioType, fileName) ==
    /\ AdapterOp("MediaAdapter::play",
                 <<"MediaAdapter::play", <<audioType, fileName>>, <<"void">>,
                   MediaAdapterPlayLine(mediaAdapters[i], audioType, fileName)>>)
    /\ UNCHANGED adapterVars

\* std::vector<std::string> MediaAdapter::getSupportedFormats() const
MediaAdapterGetSupportedFormats(i) ==
    /\ AdapterOp("MediaAdapter::getSupportedFormats",
                 <<"MediaAdapter::getSupportedFormats", <<>>,
                   (IF mediaAdapters[i].mp3Player THEN <<mp3>> ELSE <<>>)
                     \o (IF mediaAdapters[i].mp4Player THEN <<mp4>> ELSE <<>>)
                     \o (IF mediaAdapters[i].vlcPlayer THEN <<vlc, avi>> ELSE <<>>),
                   <<>> >>)
    /\ UNCHANGED adapterVars

\* void AudioPlayer::play(audioType, fileName)
AudioPlayerPlay(audioType, fileName) ==
    LET lowerType == ToLower(audioType)
        op == "AudioPlayer::play"
    IN  IF lowerType = mp3
        THEN /\ AdapterOp(op, <<op, <<audioType, fileName>>, <<"void">>,
                                <<"AudioPlayer: Playing MP3 file ", fileName,
                                  " at volume ", audioPlayer.volume>> >>)
             /\ UNCHANGED adapterVars
        ELSE IF IsFormatSupported(lowerType)
        THEN IF audioPlayer.adapter = Null
             THEN /\ mediaAdapters' = Append(mediaAdapters, ConstructMediaAdapter(audioType))
                  /\ audioPlayer' = [audioPlayer EXCEPT !.adapter = Len(mediaAdapters) + 1]
                  /\ AdapterOp(op, <<op, <<audioType, fileName>>, <<"void">>,
                                     MediaAdapterPlayLine(ConstructMediaAdapter(audioType),
                                                          audioType, fileName)>>)
             ELSE /\ AdapterOp(op, <<op, <<audioType, fileName>>, <<"void">>,
                                     MediaAdapterPlayLine(mediaAdapters[audioPlayer.adapter],
                                                          audioType, fileName)>>)
                  /\ UNCHANGED adapterVars
        ELSE /\ AdapterOp(op, <<op, <<audioType, fileName>>, <<"void">>,
                                <<"Unsupported audio format: ", audioType>> >>)
             /\ UNCHANGED adapterVars

\* std::vector<std::string> AudioPlayer::getSupportedFormats() const
AudioPlayerGetSupportedFormats ==
    /\ AdapterOp("AudioPlayer::getSupportedFormats",
                 <<"AudioPlayer::getSupportedFormats", <<>>, <<mp3>> \o <<mp4, vlc, avi>>, <<>> >>)
    /\ UNCHANGED adapterVars

\* std::max(0, std::min(100, volume))
Clamp(volume) ==
    LET least == IF volume < 100 THEN volume ELSE 100
    IN  IF 0 < least THEN least ELSE 0

\* void AudioPlayer::setVolume(int volume)
SetVolume(volume) ==
    /\ AdapterOp("AudioPlayer::setVolume",
                 <<"AudioPlayer::setVolume", <<volume>>, <<"void">>, <<>> >>)
    /\ audioPlayer' = [audioPlayer EXCEPT !.volume = Clamp(volume)]
    /\ UNCHANGED mediaAdapters

\* int AudioPlayer::getVolume() const
GetVolume ==
    /\ AdapterOp("AudioPlayer::getVolume",
                 <<"AudioPlayer::getVolume", <<>>, audioPlayer.volume, <<>> >>)
    /\ UNCHANGED adapterVars

\* void AudioPlayer::showPlaylist() const
ShowPlaylist ==
    /\ AdapterOp("AudioPlayer::showPlaylist",
                 <<"AudioPlayer::showPlaylist", <<>>, <<"void">>,
                   <<"Current Playlist:">> \o
                   [i \in DOMAIN audioPlayer.playlist |->
                       <<i, ". ", audioPlayer.playlist[i][2],
                         " (", audioPlayer.playlist[i][1], ")">>]>>)
    /\ UNCHANGED adapterVars

\* void AudioPlayer::addToPlaylist(audioType, fileName)
AddToPlaylist(audioType, fileName) ==
    LET op == "AudioPlayer::addToPlaylist"
    IN  IF IsFormatSupported(audioType)
        THEN /\ AdapterOp(op, <<op, <<audioType, fileName>>, <<"void">>,
                                <<"Added to playlist: ", fileName, " (", audioType, ")">> >>)
             /\ audioPlayer' = [audioPlayer EXCEPT
                                   !.playlist = Append(@, <<audioType, fileName>>)]
             /\ UNCHANGED mediaAdapters
        ELSE /\ AdapterOp(op, <<op, <<audioType, fileName>>, <<"void">>,
                                <<"Cannot add unsupported format: ", audioType>> >>)
             /\ UNCHANGED adapterVars

\* ------------------------------------------------------ callers of adapters
\* the largest number of operations a caller of the players runs
MaxAdapterOps == 3

AdapterOps(audioTypes, fileNames, volumes) ==
    \/ \E audioType \in audioTypes : MediaAdapterNew(audioType)
    \/ \E i \in DOMAIN mediaAdapters \ {audioPlayer.adapter},
           audioType \in audioTypes, fileName \in fileNames :
          MediaAdapterPlay(i, audioType, fileName)
    \/ \E i \in DOMAIN mediaAdapters \ {audioPlayer.adapter} :
          MediaAdapterGetSupportedFormats(i)
    \/ \E audioType \in audioTypes, fileName \in fileNames :
          AudioPlayerPlay(audioType, fileName)
    \/ AudioPlayerGetSupportedFormats
    \/ \E volume \in volumes : SetVolume(volume)
    \/ GetVolume
    \/ ShowPlaylist
    \/ \E audioType \in audioTypes, fileName \in fileNames :
          AddToPlaylist(audioType, fileName)

AdapterSpecInit == ProgInit /\ LibInit /\ budget = MaxAdapterOps /\ pre = NotRecorded

\* a caller plays and lists files of the supported formats, in either case,
\* and of formats that are not supported
AdapterNext ==
    AdapterOps({mp3, mp4, <<"M", "P", "4">>, vlc, avi, <<"w", "a", "v">>, <<>>},
               {"song"}, {-5, 75, 150})

AdapterSpec == AdapterSpecInit /\ [][AdapterNext]_vars

\* =================================================================== bridge
\* an operation on a Device or through a RemoteControl, which leaves the
\* other library objects alone; r is the operation with its arguments, what
\* it returned and the reads it made of Radio::availableStations, each as
\* <<index, size of the list>>
BridgeOp(op, r) ==
    /\ LibOp(op)
    /\ libRet' = r
    /\ UNCHANGED <<builderVars, protoVars, factoryVars, adapterVars, shapeVars>>

\* std::max and std::min on int
StdMax(a, b) == IF a < b THEN b ELSE a
StdMin(a, b) == IF b < a THEN b ELSE a

\* frequencies are floats with one decimal, kept here in tenths: 88.5f is 885
DefaultStations == <<885, 923, 957, 981, 1015, 1049, 1073>>

\* Television::Television(brand, maxVolume) with the member initialisers
NewTelevision(maxVolume) ==
    [class |-> "Television", enabled |-> FALSE, volume |-> 50, channel |-> 1,
     maxVolume |-> maxVolume]

\* Radio::Radio(brand, minFreq, maxFreq) with the member initialisers
NewRadio(minFreq, maxFreq) ==
    [class |-> "Radio", enabled |-> FALSE, volume |-> 30, channel |-> 1,
     frequency |-> 1000, minFreq |-> minFreq, maxFreq |-> maxFreq,
     availableStations |-> DefaultStations]

\* the constructors of BasicRemote, AdvancedRemote and SmartRemote, with the
\* member initialisers the operations here use
NewRemote(class, device) ==
    [class |-> class, device |-> device, muted |-> FALSE, previousVolume |-> 0]

\* void Television::setVolume(int volume)
TelevisionSetVolume(d, volume) ==
    [d EXCEPT !.volume = StdMax(0, StdMin(d.maxVolume, volume))]

\* void Radio::setVolume(int volume)
RadioSetVolume(d, volume) ==
    [d EXCEPT !.volume = StdMax(0, StdMin(100, volume))]

\* device->setVolume(volume)
DeviceSetVolume(d, volume) ==
    IF d.class = "Television" THEN TelevisionSetVolume(d, volume)
    ELSE RadioSetVolume(d, volume)

\* void Television::setChannel(int channel)
TelevisionSetChannel(d, channel) ==
    [d EXCEPT !.channel = StdMax(1, channel)]

\* the test of Radio::setChannel that guards the read of the list
StationInRange(d, channel) == channel <= Len(d.availableStations)

\* the reads Radio::setChannel makes of availableStations
StationReads(d, channel) ==
    IF d.class = "Radio" /\ StationInRange(d, channel)
    THEN << <<channel - 1, Len(d.availableStations)>> >>
    ELSE <<>>

\* what availableStations[index] yields: the station, or, read outside the
\* list (undefined behaviour), some float that is no station of the list
StationAt(d, index) ==
    IF 0 <= index /\ index < Len(d.availableStations)
    THEN {d.availableStations[index + 1]}
    ELSE {0, d.frequency}

\* void Radio::setChannel(int channel): the states it may leave the radio in
RadioSetChannel(d, channel) ==
    IF StationInRange(d, channel)
    THEN {[d EXCEPT !.channel = StdMax(1, channel), !.frequency = f] :
             f \in StationAt(d, channel - 1)}
    ELSE {[d EXCEPT !.channel = StdMax(1, channel)]}

\* device->setChannel(channel)
DeviceSetChannel(d, channel) ==
    IF d.class = "Television" THEN {TelevisionSetChannel(d, channel)}
    ELSE RadioSetChannel(d, channel)

\* the stations Radio::scanForStations finds from minFreq to maxFreq in
\* steps of 0.2f. With minFreq = maxFreq the loop runs once on an exact
\* float; over a longer range the sums of 0.2f are rounded and the model
\* leaves open which of the two ends of the range are found
ScannedStations(minFreq, maxFreq) ==
    IF maxFreq < minFreq THEN {<<>>}
    ELSE IF minFreq = maxFreq
    THEN {IF minFreq % 17 = 0 THEN <<minFreq>> ELSE <<>>}
    ELSE {<<>>, <<minFreq>>, <<maxFreq>>, <<minFreq, maxFreq>>}

\* the device of remote r becomes d, and the remote itself m
Controls(r, d, m) ==
    /\ devices' = [devices EXCEPT ![remotes[r].device] = d]
    /\ remotes' = [remotes EXCEPT ![r] = m]

\* the device remote r controls
DeviceOf(r) == devices[remotes[r].device]

\* void RemoteControl::togglePower()
TogglePower(r) ==
    /\ BridgeOp("RemoteControl::togglePower",
                <<"RemoteControl::togglePower", <<r>>, <<"void">>, <<>> >>)
    /\ Controls(r, [DeviceOf(r) EXCEPT !.enabled = ~DeviceOf(r).enabled], remotes[r])

\* a call of device->setVolume(volume) by operation op of remote r
SetsVolume(op, r, a, volume) ==
    /\ BridgeOp(op, <<op, a, <<"void">>, <<>> >>)
    /\ Controls(r, DeviceSetVolume(DeviceOf(r), volume), remotes[r])

\* a call of device->setChannel(channel) by operation op of remote r
SetsChannel(op, r, a, channel) ==
    /\ BridgeOp(op, <<op, a, <<"void">>, StationReads(DeviceOf(r), channel)>>)
    /\ \E d \in DeviceSetChannel(DeviceOf(r), channel) : Controls(r, d, remotes[r])

\* void RemoteControl::volumeUp()
RemoteVolumeUp(r) ==
    SetsVolume("RemoteControl::volumeUp", r, <<r>>, DeviceOf(r).volume + 1)

\* void RemoteControl::volumeDown()
RemoteVolumeDown(r) ==
    SetsVolume("RemoteControl::volumeDown", r, <<r>>, DeviceOf(r).volume - 1)

\* void RemoteControl::channelUp()
RemoteChannelUp(r) ==
    SetsChannel("RemoteControl::channelUp", r, <<r>>, DeviceOf(r).channel + 1)

\* void RemoteControl::channelDown()
RemoteChannelDown(r) ==
    SetsChannel("RemoteControl::channelDown", r, <<r>>,
                StdMax(1, DeviceOf(r).channel - 1))

\* void RemoteControl::setVolume(int volume)
RemoteSetVolume(r, volume) ==
    SetsVolume("RemoteControl::setVolume", r, <<r, volume>>, volume)

\* void RemoteControl::setChannel(int channel)
RemoteSetChannel(r, channel) ==
    SetsChannel("RemoteControl::setChannel", r, <<r, channel>>, channel)

\* the remotes that can mute
CanMute == {r \in DOMAIN remotes : remotes[r].class \in {"BasicRemote", "AdvancedRemote"}}

\* void BasicRemote::mute() and void AdvancedRemote::mute()
Mute(r) ==
    /\ r \in CanMute
    /\ BridgeOp("mute", <<"mute", <<r>>, <<"void">>, <<>> >>)
    /\ IF ~remotes[r].muted
       THEN Controls(r, DeviceSetVolume(DeviceOf(r), 0),
                     [remotes[r] EXCEPT !.previousVolume = DeviceOf(r).volume,
                                        !.muted = TRUE])
       ELSE UNCHANGED bridgeVars

\* void BasicRemote::unmute() and void AdvancedRemote::unmute()
Unmute(r) ==
    /\ r \in CanMute
    /\ BridgeOp("unmute", <<"unmute", <<r>>, <<"void">>, <<>> >>)
    /\ IF remotes[r].muted
       THEN Controls(r, DeviceSetVolume(DeviceOf(r), remotes[r].previousVolume),
                     [remotes[r] EXCEPT !.muted = FALSE])
       ELSE UNCHANGED bridgeVars

\* lowerCommand.find(text) != std::string::npos
Found(text, lowerCommand) ==
    \E i \in 0..(Len(lowerCommand) - Len(text)) :
        SubSeq(lowerCommand, i + 1, i + Len(text)) = text

\* std::isdigit(c) and c - '0'
Digits == <<"0", "1", "2", "3", "4", "5", "6", "7", "8", "9">>
IsDigit(c) == \E i \in DOMAIN Digits : Digits[i] = c
DigitValue(c) == (CHOOSE i \in DOMAIN Digits : Digits[i] = c) - 1

\* the phrases SmartRemote::processVoiceCommand looks for
TurnOn == <<"t", "u", "r", "n", " ", "o", "n">>
TurnOff == <<"t", "u", "r", "n", " ", "o", "f", "f">>
VolumeUp == <<"v", "o", "l", "u", "m", "e", " ", "u", "p">>
VolumeDown == <<"v", "o", "l", "u", "m", "e", " ", "d", "o", "w", "n">>
Channel == <<"c", "h", "a", "n", "n", "e", "l">>

\* void SmartRemote::voiceCommand(command), with processVoiceCommand
VoiceCommand(r, command) ==
    LET lowerCommand == ToLower(command)
        op == "SmartRemote::voiceCommand"
        digits == {i \in DOMAIN lowerCommand : IsDigit(lowerCommand[i])}
        first == CHOOSE i \in digits : \A j \in digits : i <= j
    IN  /\ remotes[r].class = "SmartRemote"
        /\ IF Found(TurnOn, lowerCommand)
           THEN /\ BridgeOp(op, <<op, <<r, command>>, <<"void">>, <<>> >>)
                /\ Controls(r, [DeviceOf(r) EXCEPT !.enabled = TRUE], remotes[r])
           ELSE IF Found(TurnOff, lowerCommand)
           THEN /\ BridgeOp(op, <<op, <<r, command>>, <<"void">>, <<>> >>)
                /\ Controls(r, [DeviceOf(r) EXCEPT !.enabled = FALSE], remotes[r])
           ELSE IF Found(VolumeUp, lowerCommand)
           THEN SetsVolume(op, r, <<r, command>>, DeviceOf(r).volume + 1)
           ELSE IF Found(VolumeDown, lowerCommand)
           THEN SetsVolume(op, r, <<r, command>>, DeviceOf(r).volume - 1)
           ELSE IF Found(Channel, lowerCommand) /\ digits # {}
           THEN SetsChannel(op, r, <<r, command>>, DigitValue(lowerCommand[first]))
           ELSE /\ BridgeOp(op, <<op, <<r, command>>, <<"void">>, <<>> >>)
                /\ UNCHANGED bridgeVars

\* void Radio::scanForStations(), on radio i
ScanForStations(i) ==
    /\ devices[i].class = "Radio"
    /\ BridgeOp("Radio::scanForStations",
                <<"Radio::scanForStations", <<i>>, <<"void">>, <<>> >>)
    /\ \E found \in ScannedStations(devices[i].minFreq, devices[i].maxFreq) :
          devices' = [devices EXCEPT ![i].availableStations = found]
    /\ UNCHANGED remotes

BridgeOps(volumes, channels, commands) ==
    \/ \E r \in DOMAIN remotes : TogglePower(r)
    \/ \E r \in DOMAIN remotes : RemoteVolumeUp(r)
    \/ \E r \in DOMAIN remotes : RemoteVolumeDown(r)
    \/ \E r \in DOMAIN remotes : RemoteChannelUp(r)
    \/ \E r \in DOMAIN remotes : RemoteChannelDown(r)
    \/ \E r \in DOMAIN remotes, volume \in volumes : RemoteSetVolume(r, volume)
    \/ \E r \in DOMAIN remotes, channel \in channels : RemoteSetChannel(r, channel)
    \/ \E r \in DOMAIN remotes : Mute(r)
    \/ \E r \in DOMAIN remotes : Unmute(r)
    \/ \E r \in DOMAIN remotes, command \in commands : VoiceCommand(r, command)
    \/ \E i \in DOMAIN devices : ScanForStations(i)

MaxBridgeOps == 3

\* runBridgeDemo's objects, a Television of some maxVolume and a Radio of
\* some range with a BasicRemote and an AdvancedRemote on the one and a
\* SmartRemote on the other, before at most MaxBridgeOps operations
BridgeSpecInit ==
    /\ ProgInit
    /\ BuilderInit /\ ProtoInit /\ FactoryInit /\ AdapterInit /\ ShapeInit
    /\ lastOp = "none" /\ libRet = NoValue
    /\ budget = MaxBridgeOps /\ pre = NotRecorded
    /\ \E maxVolume \in {100, 30, -1} :
       \E range \in {<<880, 1080>>, <<880, 880>>} :
          devices = <<NewTelevision(maxVolume), NewRadio(range[1], range[2])>>
    /\ remotes = <<NewRemote("BasicRemote", 1), NewRemote("AdvancedRemote", 1),
                   NewRemote("SmartRemote", 2)>>

BridgeNext ==
    BridgeOps({-5, 40, 150}, {0, 3, 8},
              {<<"c", "h", "a", "n", "n", "e", "l", " ", "0">>,
               <<"C", "h", "a", "n", "n", "e", "l", " ", "3">>,
               <<"V", "o", "l", "u", "m", "e", " ", "u", "p">>,
               <<"t", "u", "r", "n", " ", "o", "f", "f">>,
               <<"h", "e", "l", "l", "o">>})

BridgeSpec == BridgeSpecInit /\ [][BridgeNext]_vars

\* ================================================================= Triangle
\* an operation on the Triangle prototype, which leaves the other library
\* objects alone; r is the operation with its arguments and what it returned
ShapeOp(op, r) ==
    /\ LibOp(op)
    /\ libRet' = r
    /\ UNCHANGED <<builderVars, protoVars, factoryVars, adapterVars, bridgeVars>>

\* a double is a number or the NaN, which no comparison holds of
NaN == <<"nan">>
Num(n) == <<"num", n>>
Plus(a, b) == IF a = NaN \/ b = NaN THEN NaN ELSE Num(a[2] + b[2])
Greater(a, b) == a # NaN /\ b # NaN /\ a[2] > b[2]

\* isValidTriangle that accepts the degenerate triangles
IsValidTriangle_NonStrict(t) ==
    /\ ~Greater(t.side3, Plus(t.side1, t.side2))
    /\ ~Greater(t.side2, Plus(t.side1, t.side3))
    /\ ~Greater(t.side1, Plus(t.side2, t.side3))
    /\ Greater(t.side1, Num(0)) /\ Greater(t.side2, Num(0)) /\ Greater(t.side3, Num(0))

\* bool Triangle::isValidTriangle() const
IsValidTriangle(t) ==
    /\ Greater(Plus(t.side1, t.side2), t.side3)
    /\ Greater(Plus(t.side1, t.side3), t.side2)
    /\ Greater(Plus(t.side2, t.side3), t.side1)
    /\ Greater(t.side1, Num(0)) /\ Greater(t.side2, Num(0)) /\ Greater(t.side3, Num(0))

\* the sides are assigned and, if (!isValidTriangle()), all set to 1.0
WithSides(t, side1, side2, side3) ==
    LET given == [t EXCEPT !.side1 = side1, !.side2 = side2, !.side3 = side3]
    IN  IF ~IsValidTriangle(given)
        THEN [given EXCEPT !.side1 = Num(1), !.side2 = Num(1), !.side3 = Num(1)]
        ELSE given

\* Triangle::Triangle(name, side1, side2, side3), the prototype of the run
NewTriangle(name, side1, side2, side3) ==
    /\ triangle = <<>>
    /\ ShapeOp("Triangle::Triangle",
               <<"Triangle::Triangle", <<side1, side2, side3>>, <<"object">> >>)
    /\ triangle' = <<WithSides([name |-> name, side1 |-> side1, side2 |-> side2,
                                side3 |-> side3], side1, side2, side3)>>
    /\ UNCHANGED triangleCopy

\* void Triangle::setSides(double side1, double side2, double side3)
TriangleSetSides(side1, side2, side3) ==
    /\ triangle # <<>>
    /\ ShapeOp("Triangle::setSides",
               <<"Triangle::setSides", <<side1, side2, side3>>, <<"void">> >>)
    /\ triangle' = <<WithSides(triangle[1], side1, side2, side3)>>
    /\ UNCHANGED triangleCopy

\* std::unique_ptr<Prototype> Triangle::clone() const, by the copy constructor
TriangleClone ==
    /\ triangle # <<>>
    /\ ShapeOp("Triangle::clone", <<"Triangle::clone", <<>>, <<"object">> >>)
    /\ triangleCopy' = <<[name |-> triangle[1].name, side1 |-> triangle[1].side1,
                          side2 |-> triangle[1].side2, side3 |-> triangle[1].side3]>>
    /\ UNCHANGED triangle

MaxSide == 2
MaxShapeOps == 2

\* the doubles the sides are drawn from: NaN, -1, 0 and the whole numbers up
\* to MaxSide, on which the additions of isValidTriangle are exact
Doubles == {NaN} \cup {Num(n) : n \in -1..MaxSide}

TriangleSpecInit == ProgInit /\ LibInit /\ budget = MaxShapeOps /\ pre = NotRecorded

TriangleNext ==
    \/ \E side1, side2, side3 \in Doubles : NewTriangle("t", side1, side2, side3)
    \/ \E side1, side2, side3 \in Doubles : TriangleSetSides(side1, side2, side3)
    \/ TriangleClone

TriangleSpec == TriangleSpecInit /\ [][TriangleNext]_vars

\* ============================================================== claims

\* the positions of getInstance() after its lock_guard is constructed
InsideGetInstance == {"gi_check", "gi_new", "gi_store", "gi_ret"}

\* C1: however many threads race through their first getInstance() on an
\* empty slot, the payload constructor runs at most once, exactly once as
\* soon as a call has returned, and every reference a call returned is a
\* reference to that one payload (the one the slot holds).
C1_SingleConstruction ==
    \A h \in Holders :
        /\ ctorRuns[h] <= 1
        /\ \A t \in Threads :
              cur[t][1] = h =>
                  /\ ctorRuns[h] = 1
                  /\ cur[t][2] = instance_[h]
                  /\ \A u \in Threads : cur[u][1] = h => cur[u][2] = cur[t][2]

\* every thread is inside its first Logger::getInstance() at once: none has
\* been handed a reference yet, one of them has constructed and stored the
\* payload and is about to return it, the others still wait for the mutex
C1_Witness ==
    /\ \A t \in Threads : callee[t] = "Logger" /\ pc[t] # "idle" /\ cur[t] = NoRef
    /\ firstRet["Logger"] = Null
    /\ ctorRuns["Logger"] = 1
    /\ instance_["Logger"] # Null
    /\ \E t \in Threads :
          /\ pc[t] = "gi_ret"
          /\ \A u \in Threads \ {t} : pc[u] = "gi_lock"

\* C2: a slot that has been filled is never emptied and never given another
\* payload, and every getInstance() that returned has returned the payload
\* the first one returned.
C2_SlotNeverReplaced ==
    /\ [][\A h \in Holders : instance_[h] # Null => instance_'[h] = instance_[h]]_vars
    /\ [](\A h \in Holders :
            firstRet[h] # Null =>
                /\ instance_[h] = firstRet[h]
                /\ \A t \in Threads : cur[t][1] = h => cur[t][2] = firstRet[h])

\* after addData() on the Singleton payload, a later getInstance() is about
\* to return while another thread still holds the reference it got first
C2_Witness ==
    /\ data_ = <<"item">>
    /\ firstRet["Singleton"] = 1
    /\ \E t \in Threads : pc[t] = "gi_ret" /\ callee[t] = "Singleton"
    /\ \E u \in Threads : cur[u] = <<"Singleton", 1>>

\* C3: a thread that checks the slot, constructs, stores or reads the slot
\* for its return holds that holder's mutex (so at most one thread per holder
\* is there at a time, also when the payload exists already), and a
\* reference that was returned is the reference of a payload whose
\* constructor has run.
C3_AccessUnderLock ==
    /\ \A t \in Threads :
          pc[t] \in InsideGetInstance => mutex_[callee[t]] = t
    /\ \A t, u \in Threads :
          (t # u /\ pc[t] \in InsideGetInstance /\ pc[u] \in InsideGetInstance)
              => callee[t] # callee[u]
    /\ \A t \in Threads :
          cur[t] # NoRef => cur[t][2] # Null /\ cur[t][2] <= ctorRuns[cur[t][1]]

\* the payload exists, a thread re-checks the slot under the mutex and
\* another one waits for that mutex
C3_Witness ==
    \E t, u \in Threads :
        /\ t # u
        /\ instance_["ConfigManager"] # Null
        /\ pc[t] = "gi_check" /\ callee[t] = "ConfigManager"
        /\ pc[u] = "gi_lock" /\ callee[u] = "ConfigManager"

\* no thread has called ConfigManager::getInstance() yet: no such call has
\* returned and none is running
NoConfigCallYet ==
    /\ firstRet["ConfigManager"] = Null
    /\ \A t \in Threads :
          ~(callee[t] = "ConfigManager" /\ pc[t] \in {"gi_lock"} \cup InsideGetInstance)

\* C4: before any thread has called ConfigManager::getInstance() the slot
\* is empty, and for as long as it is empty the payload has no entry at all
\* (none of the five defaults); in the state the first getInstance() returns
\* in, the five defaults are present with their values and nothing else is.
C4_LazyDefaults ==
    /\ [](NoConfigCallYet => instance_["ConfigManager"] = Null)
    /\ [](instance_["ConfigManager"] = Null => DOMAIN config_ = {})
    /\ [][(firstRet["ConfigManager"] = Null /\ firstRet'["ConfigManager"] # Null) =>
            /\ DOMAIN config_' =
                  {"api_url", "timeout", "retries", "debug", "max_connections"}
            /\ config_'["api_url"] = "https://api.example.com"
            /\ config_'["timeout"] = "5000"
            /\ config_'["retries"] = "3"
            /\ config_'["debug"] = "false"
            /\ config_'["max_connections"] = "100"]_vars

\* the first ConfigManager::getInstance() has returned, nothing else was
\* called on the payload, and a second thread is inside its own first call
C4_Witness ==
    /\ firstRet["ConfigManager"] # Null
    /\ cur[1] = <<"ConfigManager", 1>> /\ pc[1] = "idle"
    /\ pc[2] = "gi_lock" /\ callee[2] = "ConfigManager"
    /\ budget = MaxCalls - 2
    /\ config_ = DefaultConfig

\* the positions at which a thread is writing the payload of each singleton
Writing(h) ==
    CASE h = "Singleton" -> {"ad_body", "cd_body"}
      [] h = "ConfigManager" -> {"cs_body", "cr_body"}
      [] h = "DatabaseConnection" ->
            {"co_setup", "co_store", "di_store", "eq_body", "sc_assign"}
      [] h = "Logger" -> {"sl_body", "lg_body", "cl_body"}

\* C5: no two threads are at the same time inside mutating operations of
\* the same payload.
C5_MutationsExclusive ==
    \A h \in Holders : \A t, u \in Threads :
        (pc[t] \in Writing(h) /\ pc[u] \in Writing(h)) => t = u

\* the call that began at position p has returned
Returned(p) == pre.on /\ pre.at = p /\ pc[pre.by] = "idle"

\* C6: connect() on a connected payload returns true, leaves it connected
\* and does not run the connection set-up; disconnect() on a disconnected
\* payload changes nothing.
C6_ConnectDisconnectIdempotent ==
    /\ (Returned("co_check") /\ pre.conn) =>
          /\ ret[pre.by] = <<"bool", TRUE>>
          /\ is_connected_
          /\ ~didSetup[pre.by]
          /\ connection_string_ = pre.str /\ query_history_ = pre.hist
    /\ (Returned("di_check") /\ ~pre.conn) =>
          /\ ~is_connected_
          /\ connection_string_ = pre.str /\ query_history_ = pre.hist
          /\ ret[pre.by] = NoValue

\* connect() has returned for the second time in a row
C6_Witness ==
    /\ Returned("co_check") /\ pre.conn
    /\ is_connected_ /\ ~didSetup[Main]
    /\ query_history_ = <<>>

\* C7: executeQuery(q) on a disconnected payload throws "Database not
\* connected" and leaves history and connection state as they were; on a
\* connected payload it appends q at the end of the history and returns
\* "Executed: " followed by q.
C7_ExecuteQuery ==
    Returned("eq_check") =>
        IF pre.conn
        THEN /\ query_history_ = pre.hist \o <<pre.arg[1]>>
             /\ ret[pre.by] = <<"string", "Executed: " \o pre.arg[1]>>
             /\ is_connected_
        ELSE /\ ret[pre.by] = <<"throw", "Database not connected">>
             /\ query_history_ = pre.hist
             /\ ~is_connected_
             /\ connection_string_ = pre.str

\* executeQuery() has thrown on a disconnected payload whose history holds
\* a query of the time it was connected
C7_Witness ==
    /\ Returned("eq_check") /\ ~pre.conn
    /\ pre.arg = <<"SELECT 2">>
    /\ query_history_ = <<"SELECT 1">>
    /\ ret[Main][1] = "throw"

\* C8: setConnectionString(s) on a connected payload throws and leaves the
\* connection string as it was; on a disconnected payload it makes s the
\* connection string and changes nothing else.
C8_SetConnectionString ==
    Returned("sc_check") =>
        IF pre.conn
        THEN /\ ret[pre.by][1] = "throw"
             /\ connection_string_ = pre.str
             /\ is_connected_ /\ query_history_ = pre.hist
        ELSE /\ ret[pre.by] = NoValue
             /\ connection_string_ = pre.arg[1]
             /\ ~is_connected_ /\ query_history_ = pre.hist

\* setConnectionString() has thrown on a connected payload, which still has
\* the string of its constructor
C8_Witness ==
    /\ Returned("sc_check") /\ pre.conn
    /\ ret[Main][1] = "throw"
    /\ connection_string_ = DefaultConnectionString

\* C9: log(level, ...) below the minimum level stores nothing, at or above
\* it appends exactly one entry at the end (with the minimum at WARN, DEBUG
\* and INFO are dropped, WARN and ERROR stored); getLogs() returns the
\* stored entries in the order they were appended.
C9_LevelFilter ==
    /\ Returned("lg_check") =>
          /\ min_level_ = pre.min
          /\ IF pre.arg[1] < pre.min
             THEN logs_ = pre.logs
             ELSE logs_ = pre.logs \o
                    <<[level |-> pre.arg[1], message |-> pre.arg[2],
                       category |-> pre.arg[3]]>>
          /\ (pre.min = WARN /\ pre.arg[1] \in {DEBUG, INFO}) => logs_ = pre.logs
          /\ (pre.min = WARN /\ pre.arg[1] \in {WARN, ERROR}) =>
                Len(logs_) = Len(pre.logs) + 1 /\ logs_[Len(logs_)].level = pre.arg[1]
    /\ Returned("gl_lock") =>
          ret[pre.by] = <<"vector", pre.logs>> /\ logs_ = pre.logs

\* with the minimum at WARN, getLogs() has returned a WARN entry followed by
\* an ERROR entry
C9_Witness ==
    /\ Returned("gl_lock")
    /\ min_level_ = WARN
    /\ Len(logs_) = 2 /\ logs_[1].level = WARN /\ logs_[2].level = ERROR
    /\ ret[Main] = <<"vector", logs_>>

\* C10: under fair scheduling every call that has begun returns: a thread
\* that is inside getInstance() or a payload operation of any of the four
\* singletons is eventually back at its caller.
C10_EveryCallReturns ==
    \A t \in Callers : (pc[t] # "idle") ~> (pc[t] = "idle")

\* addData() holds Singleton::mutex_ while another thread's getInstance()
\* waits for that same mutex
C10_Witness ==
    \E t, u \in Callers :
        /\ pc[t] = "ad_body" /\ mutex_["Singleton"] = t
        /\ pc[u] = "gi_lock" /\ callee[u] = "Singleton"

\* the last element of a non-empty sequence
Last(v) == v[Len(v)]

\* C11: right after build() the builder holds a default-constructed object,
\* as a freshly constructed builder does (SQLQueryBuilder, and likewise
\* ConcreteComputerBuilder and HttpRequestBuilder), so a build() that
\* directly follows a build() returns a default product; for SQL: no
\* columns, no table, no clauses, limit and offset unset, rendered as "".
C11_BuildResets ==
    /\ [](lastOp = "SQLQueryBuilder::build" => queryHeap[b_query] = DefaultQuery)
    /\ [](lastOp \in {"ConcreteComputerBuilder::build", "ComputerDirector"} =>
            computerHeap[b_computer] = DefaultComputer)
    /\ [](lastOp = "HttpRequestBuilder::build" =>
            requestHeap[b_request] = DefaultRequest)
    /\ [][(lastOp = "SQLQueryBuilder::build" /\ lastOp' = "SQLQueryBuilder::build") =>
            LET q == queryHeap'[Last(builtQueries')] IN
                /\ q.selectColumns = <<>> /\ q.fromTable = "" /\ q.joins = <<>>
                /\ q.whereConditions = <<>> /\ q.groupByColumns = <<>>
                /\ q.havingConditions = <<>> /\ q.orderByColumns = <<>>
                /\ q.limitCount = -1 /\ q.offsetCount = -1
                /\ QueryToString(q) = ""]_vars
    /\ [][(lastOp \in {"ConcreteComputerBuilder::build", "ComputerDirector"}
           /\ lastOp' = "ConcreteComputerBuilder::build") =>
            computerHeap'[Last(builtComputers')] = DefaultComputer]_vars
    /\ [][(lastOp = "HttpRequestBuilder::build"
           /\ lastOp' = "HttpRequestBuilder::build") =>
            requestHeap'[Last(builtRequests')] = DefaultRequest]_vars

\* SQLQueryBuilder::build() has run twice in a row after where(): the first
\* product has the condition, the second is a default query
C11_Witness ==
    /\ lastOp = "SQLQueryBuilder::build"
    /\ Len(builtQueries) = 2
    /\ queryHeap[builtQueries[1]].whereConditions = <<"age > 18">>
    /\ queryHeap[builtQueries[2]] = DefaultQuery
    /\ queryHeap[b_query] = DefaultQuery

\* C12: no operation on a builder changes a product it has returned: the
\* caller's pointers and the objects they point to stay as they are, and
\* neither the builder nor another product points to a returned object.
C12_ProductsImmutable ==
    /\ [][/\ \A i \in 1..Len(builtComputers) :
                /\ builtComputers'[i] = builtComputers[i]
                /\ computerHeap'[builtComputers[i]] = computerHeap[builtComputers[i]]
          /\ \A i \in 1..Len(builtRequests) :
                /\ builtRequests'[i] = builtRequests[i]
                /\ requestHeap'[builtRequests[i]] = requestHeap[builtRequests[i]]
          /\ \A i \in 1..Len(builtQueries) :
                /\ builtQueries'[i] = builtQueries[i]
                /\ queryHeap'[builtQueries[i]] = queryHeap[builtQueries[i]]]_vars
    /\ [](/\ \A i, j \in 1..Len(builtComputers) :
                /\ builtComputers[i] # b_computer
                /\ i # j => builtComputers[i] # builtComputers[j]
          /\ \A i, j \in 1..Len(builtRequests) :
                /\ builtRequests[i] # b_request
                /\ i # j => builtRequests[i] # builtRequests[j]
          /\ \A i, j \in 1..Len(builtQueries) :
                /\ builtQueries[i] # b_query
                /\ i # j => builtQueries[i] # builtQueries[j])

\* the director has built a gaming and then an office computer with the
\* same builder, and the builder has been given a CPU since
C12_Witness ==
    /\ Len(builtComputers) = 2
    /\ computerHeap[builtComputers[1]] = GamingComputer
    /\ computerHeap[builtComputers[2]] = OfficeComputer
    /\ computerHeap[b_computer].cpu = "Intel i9-13900K"
    /\ lastOp = "set"

\* the elements of v with sep between them
RECURSIVE JoinedBy(_, _)
JoinedBy(v, sep) ==
    IF v = <<>> THEN ""
    ELSE IF Len(v) = 1 THEN v[1]
    ELSE v[1] \o sep \o JoinedBy(Tail(v), sep)

\* a clause: nothing for an empty list, else the keyword and the list
Clause(keyword, v, sep) == IF v = <<>> THEN "" ELSE keyword \o JoinedBy(v, sep)

\* the clauses of q in the order SELECT, FROM, JOINs, WHERE, GROUP BY,
\* HAVING, ORDER BY, LIMIT, OFFSET
InClauseOrder(q) ==
    Clause("SELECT ", q.selectColumns, ", ")
    \o (IF q.fromTable = "" THEN "" ELSE " FROM " \o q.fromTable)
    \o Clause(" ", q.joins, " ")
    \o Clause(" WHERE ", q.whereConditions, " AND ")
    \o Clause(" GROUP BY ", q.groupByColumns, ", ")
    \o Clause(" HAVING ", q.havingConditions, " AND ")
    \o Clause(" ORDER BY ", q.orderByColumns, ", ")
    \o (IF q.limitCount < 0 THEN "" ELSE " LIMIT " \o Decimal(q.limitCount))
    \o (IF q.offsetCount < 0 THEN "" ELSE " OFFSET " \o Decimal(q.offsetCount))

\* what select({name, email}).from(users).where(age > 18).where(active = 1)
\* .orderBy(name, ASC).limit(10) leaves in the query
ExampleQuery ==
    [selectColumns |-> <<"name", "email">>, fromTable |-> "users",
     joins |-> <<>>, whereConditions |-> <<"age > 18", "active = 1">>,
     groupByColumns |-> <<>>, havingConditions |-> <<>>,
     orderByColumns |-> <<"name ASC">>, limitCount |-> 10, offsetCount |-> -1]

\* C13: whatever the order of the builder calls, toString renders the
\* clauses in the order SELECT, FROM, JOINs, WHERE, GROUP BY, HAVING,
\* ORDER BY, LIMIT, OFFSET, columns joined by ", " and the WHERE and the
\* HAVING conditions by " AND " in the order of the calls that gave them;
\* the example query renders as the text the specification gives.
C13_ClauseOrder ==
    /\ [](\A i \in 1..Len(queryHeap) :
            QueryToString(queryHeap[i]) = InClauseOrder(queryHeap[i]))
    /\ [](\A i \in 1..Len(queryHeap) :
            queryHeap[i] = ExampleQuery =>
                QueryToString(queryHeap[i]) =
                    "SELECT name, email FROM users WHERE age > 18 AND active = 1 ORDER BY name ASC LIMIT 10")
    /\ [][\A f \in {"whereConditions", "havingConditions"} :
            LET old == queryHeap[b_query][f]
                new == queryHeap'[b_query][f]
            IN  (b_query' = b_query /\ new # old) =>
                    /\ Len(new) = Len(old) + 1
                    /\ SubSeq(new, 1, Len(old)) = old]_vars

\* the six calls of the example have been made on the builder, whose query
\* object is the one build() hands over
C13_Witness ==
    /\ queryHeap[b_query] = ExampleQuery
    /\ builtQueries = <<>>
    /\ lastOp = "set"

\* the level and the skill list of Character i, given the objects and the
\* vector buffers
LevelAndSkills(chars, vecs, i) ==
    [level |-> chars[i].level, skills |-> vecs[chars[i].skills]]

\* C14: a clone starts equal to its original and is independent of it:
\* setLevel and addSkill on the clone leave the original's level and skill
\* list as they were, setLevel and addSkill on the original leave the
\* clone's, and no operation changes the level or skills of two Characters.
C14_CloneIndependent ==
    /\ [][(libRet'[1] = "clone" /\ Len(characters') > Len(characters)) =>
            LET c == Len(characters')
                o == cloneOf'[c]
            IN  /\ o = libRet'[2]
                /\ characters'[c].characterClass = characters[o].characterClass
                /\ characters'[c].name = characters[o].name
                /\ characters'[c].stats = characters[o].stats
                /\ LevelAndSkills(characters', stringVectors', c) =
                       LevelAndSkills(characters, stringVectors, o)
                /\ stringMaps'[characters'[c].equipment] =
                       stringMaps[characters[o].equipment]]_vars
    /\ [][\A c \in 1..Len(characters) :
            (cloneOf[c] # 0 /\ libRet'[1] \in {"setLevel", "addSkill"}) =>
                /\ libRet'[2] = c =>
                      LevelAndSkills(characters', stringVectors', cloneOf[c]) =
                          LevelAndSkills(characters, stringVectors, cloneOf[c])
                /\ libRet'[2] = cloneOf[c] =>
                      LevelAndSkills(characters', stringVectors', c) =
                          LevelAndSkills(characters, stringVectors, c)]_vars
    /\ [][\A j, k \in 1..Len(characters) :
            j # k =>
                \/ LevelAndSkills(characters', stringVectors', j) =
                       LevelAndSkills(characters, stringVectors, j)
                \/ LevelAndSkills(characters', stringVectors', k) =
                       LevelAndSkills(characters, stringVectors, k)]_vars

\* a warrior was cloned and the clone given level 10 and a fourth skill;
\* the original is at level 1 with its three skills
C14_Witness ==
    \E c \in 1..Len(characters) :
        /\ cloneOf[c] # 0
        /\ characters[c].level = 10
        /\ stringVectors[characters[c].skills] =
               ClassSkills("WARRIOR") \o <<"Shield Slam">>
        /\ characters[cloneOf[c]].level = 1
        /\ stringVectors[characters[cloneOf[c]].skills] = ClassSkills("WARRIOR")

\* everything of Character i: its members, with the contents of its vector
\* and of its map
Whole(chars, vecs, maps, i) ==
    [characterClass |-> chars[i].characterClass, name |-> chars[i].name,
     level |-> chars[i].level, stats |-> chars[i].stats,
     skills |-> vecs[chars[i].skills], equipment |-> maps[chars[i].equipment]]

\* v is in ascending order, without repetition
Ascending(v) == \A i, j \in 1..Len(v) : i < j => StringLess(v[i], v[j])

\* the entries that a history w of set and remove calls leaves on top of the
\* entries m that were there before it
Bound(m, w) ==
    [k \in {j \in DOMAIN m \cup DOMAIN w :
                IF j \in DOMAIN w THEN w[j][1] = "set" ELSE TRUE} |->
        IF k \in DOMAIN w THEN w[k][2] ELSE m[k]]

\* the value that a map m gives for key k, empty when it has none
ValueOr(m, k) == IF k \in DOMAIN m THEN m[k] ELSE ""

\* the contract of get, hasKey and remove over the entries m that the
\* history of calls is applied to
KeyValueMap(m) ==
    /\ Returned("cg_lock") =>
          /\ ret[pre.by] = <<"string", ValueOr(Bound(m, pre.sets), pre.arg[1])>>
          /\ config_ = pre.config
    /\ Returned("ch_lock") =>
          /\ ret[pre.by] = <<"bool", pre.arg[1] \in DOMAIN Bound(m, pre.sets)>>
          /\ config_ = pre.config
    /\ Returned("cr_lock") =>
          /\ ret[pre.by] = <<"bool", pre.arg[1] \in DOMAIN pre.config>>
          /\ pre.arg[1] \notin DOMAIN config_

\* C15: after any sequence of set and remove on the ConfigManager payload,
\* whose constructor has entered its five default entries, get(k) returns the
\* value of the most recent set(k, v) not followed by remove(k), else the
\* constructor's value for k when k was neither set nor removed, else the
\* empty string; hasKey(k) is true exactly when get(k) has such a value;
\* remove(k) returns true exactly when k was present just before; get and
\* hasKey leave the entries as they were.
C15_KeyValueMap ==
    /\ KeyValueMap(DefaultConfig)
    /\ (pre.on /\ pc[pre.by] = "idle" /\ HasRef(pre.by, "ConfigManager")) =>
          config_ = Bound(DefaultConfig, pre.sets)

\* C15 as stated, the entries being those of the set calls alone: get(k) is
\* empty and hasKey(k) false for every key that no set call has named
C15_SetsOnly == KeyValueMap(NoConfig)

\* get() has returned the empty string for a key of the constructor that
\* was removed, and for a key that was set, removed and set again get()
\* would find the last value
C15_Witness ==
    /\ Returned("cg_lock")
    /\ pre.arg = <<"debug">>
    /\ pre.sets = [k \in {"debug", "mode"} |->
                      IF k = "debug" THEN <<"removed">> ELSE <<"set", "fast">>]
    /\ ret[pre.by] = <<"string", "">>
    /\ config_["mode"] = "fast"
    /\ "debug" \notin DOMAIN config_

\* C16: the registry is a keyed store. registerPrototype(k, p) binds k to
\* p, replacing what k was bound to, and touches no other key;
\* removePrototype(k) unbinds k only; clear() unbinds every key;
\* hasPrototype(k) tells whether k is bound; createClone(k) leaves the
\* registry as it is and returns null for an unbound key, and for a bound
\* key a new Character equal to the stored one that shares neither vector
\* nor map with any other; no operation on a Character the caller holds
\* changes a stored one; getAvailablePrototypes() returns exactly the bound
\* keys in ascending order.
C16_KeyedStore ==
    /\ [][LET op == libRet'[1]
              k == libRet'[2]
          IN  /\ op = "registerPrototype" =>
                    /\ DOMAIN prototypes' = DOMAIN prototypes \cup {k}
                    /\ prototypes'[k] = libRet'[3]
                    /\ \A x \in DOMAIN prototypes \ {k} : prototypes'[x] = prototypes[x]
              /\ op = "removePrototype" =>
                    /\ DOMAIN prototypes' = DOMAIN prototypes \ {k}
                    /\ \A x \in DOMAIN prototypes' : prototypes'[x] = prototypes[x]
              /\ op = "clear" => DOMAIN prototypes' = {}
              /\ op = "hasPrototype" =>
                    /\ libRet'[3] = (k \in DOMAIN prototypes)
                    /\ prototypes' = prototypes
              /\ op = "getAvailablePrototypes" =>
                    /\ {k[i] : i \in 1..Len(k)} = DOMAIN prototypes
                    /\ Ascending(k)
                    /\ prototypes' = prototypes
              /\ op = "createClone" =>
                    /\ prototypes' = prototypes
                    /\ IF k \in DOMAIN prototypes
                       THEN LET c == libRet'[3] IN
                            /\ c = Len(characters) + 1 /\ Len(characters') = c
                            /\ owner'[c] = "caller"
                            /\ Whole(characters', stringVectors', stringMaps', c) =
                                  Whole(characters, stringVectors, stringMaps,
                                        prototypes[k])
                            /\ \A j \in 1..Len(characters) :
                                  /\ characters'[c].skills # characters'[j].skills
                                  /\ characters'[c].equipment # characters'[j].equipment
                       ELSE /\ libRet'[3] = Null
                            /\ characters' = characters]_vars
    /\ [][\A k \in DOMAIN prototypes \cap DOMAIN prototypes' :
            prototypes'[k] = prototypes[k] =>
                Whole(characters', stringVectors', stringMaps', prototypes[k]) =
                    Whole(characters, stringVectors, stringMaps, prototypes[k])]_vars
    /\ [](\A k \in DOMAIN prototypes : owner[prototypes[k]] = "registry")

\* "hero" and the four common characters were registered and
\* "warrior_template" removed: the four keys left are listed in order
C16_Witness ==
    /\ libRet = <<"getAvailablePrototypes",
                  <<"archer_template", "hero", "mage_template", "rogue_template">>>>
    /\ DOMAIN prototypes =
          {"archer_template", "hero", "mage_template", "rogue_template"}
    /\ \E i \in 1..Len(owner) : owner[i] = "destroyed"

\* the last operation has thrown std::invalid_argument
Rejected(r) == r[3][1] = "throw" /\ r[3][2] = "invalid_argument"

\* the last operation has returned a factory object that was made for it,
\* and that object is f
Dispatched(r, f) ==
    /\ r[3] = <<"unique_ptr", Len(factories) + 1>>
    /\ factories' = Append(factories, f)

\* C17: getPaymentFactory(type, id) returns a CreditCardProcessorFactory
\* holding id for "credit", a PayPalProcessorFactory holding id for "paypal",
\* and for every other type throws and makes no factory; getGUIFactory
\* returns the WindowsFactory, MacOSFactory or LinuxFactory for WINDOWS,
\* MACOS or LINUX and for every other platform value throws and makes no
\* factory; WildAnimalFactory::createAnimal throws for a type that is
\* neither LION nor WOLF and makes no product.
C17_DispatchRejectsUnknown ==
    [][/\ lastOp' = "getPaymentFactory" =>
            LET r == libRet'
                type == r[2][1]
                identifier == r[2][2]
            IN  CASE type = "credit" ->
                       Dispatched(r, [class |-> "CreditCardProcessorFactory",
                                      card_number_ |-> identifier])
                  [] type = "paypal" ->
                       Dispatched(r, [class |-> "PayPalProcessorFactory",
                                      email_ |-> identifier])
                  [] OTHER -> Rejected(r) /\ UNCHANGED factoryVars
       /\ lastOp' = "getGUIFactory" =>
            LET r == libRet'
                platform == r[2][1]
            IN  CASE platform = WINDOWS -> Dispatched(r, [class |-> "WindowsFactory"])
                  [] platform = MACOS -> Dispatched(r, [class |-> "MacOSFactory"])
                  [] platform = LINUX -> Dispatched(r, [class |-> "LinuxFactory"])
                  [] OTHER -> Rejected(r) /\ UNCHANGED factoryVars
       /\ lastOp' = "createAnimal" =>
            LET r == libRet'
                type == factories[r[2][1]].animal_type_
            IN  IF type \in {LION, WOLF}
                THEN /\ r[3] = <<"unique_ptr", Len(products) + 1>>
                     /\ products' = Append(products,
                                           [class |-> IF type = LION THEN "Lion" ELSE "Wolf"])
                ELSE Rejected(r) /\ UNCHANGED factoryVars
      ]_vars

\* a caller holds the factories of "credit" and of LINUX, and its request for
\* a "bitcoin" factory has just been rejected
C17_Witness ==
    /\ lastOp = "getPaymentFactory"
    /\ libRet = <<"getPaymentFactory", <<"bitcoin", "4111111111111111">>,
                  <<"throw", "invalid_argument", "Unknown payment type: bitcoin">> >>
    /\ factories = <<[class |-> "CreditCardProcessorFactory",
                      card_number_ |-> "4111111111111111"],
                     [class |-> "LinuxFactory"]>>

\* a type names none of the formats mp3, mp4, vlc and avi, in either case of
\* its letters
Unsupported(audioType) == ToLower(audioType) \notin {mp3, mp4, vlc, avi}

\* C18: AudioPlayer::play and MediaAdapter::play with a type that names none
\* of mp3, mp4, vlc and avi (letters of either case) return without an
\* exception, write the line that says the format is unsupported, and leave
\* the player, its adapter, its volume, its playlist and every MediaAdapter
\* as they were; AudioPlayer::addToPlaylist with such a type leaves the
\* playlist and the rest as they were.
C18_UnsupportedIsSoft ==
    [][(/\ lastOp' \in {"AudioPlayer::play", "MediaAdapter::play",
                        "AudioPlayer::addToPlaylist"}
        /\ Unsupported(libRet'[2][1]))
       => /\ libRet'[3] = <<"void">>
          /\ libRet'[4] = <<CASE lastOp' = "AudioPlayer::play" -> "Unsupported audio format: "
                              [] lastOp' = "MediaAdapter::play" -> "Unsupported format: "
                              [] OTHER -> "Cannot add unsupported format: ",
                          libRet'[2][1]>>
          /\ UNCHANGED adapterVars
      ]_vars

\* the player with a playlist entry, a changed volume and no adapter has
\* just been asked to play a wav file
C18_Witness ==
    /\ lastOp = "AudioPlayer::play"
    /\ libRet[2] = <<(<<"w", "a", "v">>), "song">>
    /\ audioPlayer = [adapter |-> Null, volume |-> 75,
                      playlist |-> << <<mp4, "song">> >>]
    /\ mediaAdapters = <<>>

\* thread t leaves getInstance() of holder h by the exception of a failed
\* construction
ConstructionFails(t, h) ==
    /\ pc[t] = "gi_new"
    /\ callee[t] = h
    /\ pc'[t] = "idle"
    /\ ret'[t] = <<"throw", "std::bad_alloc", h>>

\* the slot of holder h owns a payload whose constructor has run to its end
\* (no operation other than getInstance() has touched it)
FullyConstructed(h) ==
    /\ instance_[h] \in 1..ctorRuns[h]
    /\ h = "Singleton" => data_ = <<>>
    /\ h = "ConfigManager" => config_ = DefaultConfig
    /\ h = "DatabaseConnection" =>
          /\ connection_string_ = DefaultConnectionString
          /\ ~is_connected_
          /\ query_history_ = <<>>
    /\ h = "Logger" => logs_ = <<>> /\ min_level_ = INFO

\* C19: when the construction fails inside getInstance(), the call ends with
\* the slot empty, the holder's mutex unlocked and no reference handed out,
\* and no payload or count of constructions changed; a getInstance() that
\* finds the slot empty constructs again; and a slot that is not empty
\* always owns a payload whose constructor has run to its end.
C19_FailedConstructionRetries ==
    /\ [](\A h \in Holders : instance_[h] # Null => FullyConstructed(h))
    /\ [][\A t \in Threads, h \in Holders :
            /\ ConstructionFails(t, h) =>
                  /\ instance_'[h] = Null
                  /\ mutex_'[h] = Free
                  /\ cur'[t] = NoRef
                  /\ UNCHANGED <<instance_, ctorRuns, firstRet, payloadVars>>
            /\ (pc[t] = "gi_check" /\ pc'[t] # "gi_check"
                    /\ callee[t] = h /\ instance_[h] = Null) =>
                  pc'[t] = "gi_new"
        ]_vars

\* the getInstance() of one thread has failed on the DatabaseConnection, and the
\* getInstance() of another has then constructed the payload and returned
\* a reference to it
C19_Witness ==
    \E t, u \in Threads :
        /\ pc[t] = "idle"
        /\ ret[t] = <<"throw", "std::bad_alloc", "DatabaseConnection">>
        /\ cur[t] = NoRef
        /\ pc[u] = "idle"
        /\ cur[u] = <<"DatabaseConnection", 1>>
        /\ instance_["DatabaseConnection"] = 1
        /\ ctorRuns["DatabaseConnection"] = 1
        /\ mutex_["DatabaseConnection"] = Free

\* no thread is between taking the lock and the end of an addData() or a
\* clearData(): every such call that took the lock has completed
BagAtRest == \A t \in Threads : pc[t] \notin {"ad_body", "cd_body"}

\* C20: whenever the addData() and clearData() calls that took the lock have
\* completed, data_ holds exactly the items of the addData() calls since the
\* last clearData(), each once, in the order in which the calls took the
\* lock; getDataCount() returns their number and getData() returns them in
\* that order; and a caller that changes the vector it was returned changes
\* neither data_ nor what another caller was returned.
C20_NoLostAppend ==
    /\ [](BagAtRest => data_ = lockOrder)
    /\ [][\A t \in Threads :
            /\ (pc[t] = "gc_body" /\ pc'[t] = "idle") =>
                  BagAtRest /\ ret'[t] = <<"size", Len(lockOrder)>>
            /\ (pc[t] = "gd_body" /\ pc'[t] = "idle") =>
                  BagAtRest /\ ret'[t] = <<"vector", lockOrder>>
            /\ (pc[t] = "idle" /\ pc'[t] = "idle" /\ ret'[t] # ret[t]) =>
                  /\ data_' = data_
                  /\ \A u \in Threads \ {t} : ret'[u] = ret[u]
        ]_vars

\* two threads have appended to the bag, the second while the first was
\* waiting to be returned to; one has then read the count and the other has
\* changed the copy it was returned
C20_Witness ==
    \E t, u \in Threads :
        /\ t # u
        /\ data_ = <<"b", "a">>
        /\ lockOrder = <<"b", "a">>
        /\ ret[t] = <<"size", 2>>
        /\ ret[u] = <<"vector", <<"b", "a", "mine">> >>
        /\ pc[t] = "idle"
        /\ pc[u] = "idle"

\* the platform whose factory a class is, and the platform and kind of
\* widget a class is
FactoryPlatform(class) ==
    CASE class = "WindowsFactory" -> WINDOWS
      [] class = "MacOSFactory" -> MACOS
      [] class = "LinuxFactory" -> LINUX
WidgetPlatform(class) ==
    CASE class \in {"WindowsButton", "WindowsWindow", "WindowsMenu"} -> WINDOWS
      [] class \in {"MacOSButton", "MacOSWindow", "MacOSMenu"} -> MACOS
      [] class \in {"LinuxButton", "LinuxWindow", "LinuxMenu"} -> LINUX
WidgetKind(class) ==
    CASE class \in {"WindowsButton", "MacOSButton", "LinuxButton"} -> "Button"
      [] class \in {"WindowsWindow", "MacOSWindow", "LinuxWindow"} -> "Window"
      [] class \in {"WindowsMenu", "MacOSMenu", "LinuxMenu"} -> "Menu"

\* C21: the factory getGUIFactory(P) returns for P in {WINDOWS, MACOS, LINUX}
\* is the factory of P; each of createButton, createWindow and createMenu on
\* it makes that kind of widget of P; and every Application holds a button,
\* a window and a menu, three objects of its own, of the platform of the
\* factory it was constructed from.
C21_OnePlatform ==
    /\ [](\A a \in DOMAIN applications :
            LET app == applications[a]
                P == FactoryPlatform(factories[app.factory].class)
            IN  /\ WidgetKind(products[app.button].class) = "Button"
                /\ WidgetKind(products[app.window].class) = "Window"
                /\ WidgetKind(products[app.menu].class) = "Menu"
                /\ WidgetPlatform(products[app.button].class) = P
                /\ WidgetPlatform(products[app.window].class) = P
                /\ WidgetPlatform(products[app.menu].class) = P
                /\ Cardinality({app.button, app.window, app.menu}) = 3
                /\ \A b \in DOMAIN applications \ {a} :
                      {app.button, app.window, app.menu}
                        \cap {applications[b].button, applications[b].window,
                              applications[b].menu} = {})
    /\ [][/\ (lastOp' = "getGUIFactory" /\ libRet'[3][1] = "unique_ptr") =>
                FactoryPlatform(factories'[libRet'[3][2]].class) = libRet'[2][1]
          /\ lastOp' \in {"createButton", "createWindow", "createMenu"} =>
                LET made == products'[libRet'[3][2]].class
                IN  /\ products' = Append(products, [class |-> made])
                    /\ WidgetPlatform(made)
                          = FactoryPlatform(factories[libRet'[2][1]].class)
                    /\ "create" \o WidgetKind(made) = lastOp'
       ]_vars

\* an Application has been constructed from the factory of MACOS, after the
\* caller got the factory of LINUX as well
C21_Witness ==
    /\ lastOp = "Application::Application"
    /\ factories = <<[class |-> "LinuxFactory"], [class |-> "MacOSFactory"]>>
    /\ applications = <<[factory |-> 2, button |-> 1, window |-> 2, menu |-> 3]>>
    /\ products = <<[class |-> "MacOSButton"], [class |-> "MacOSWindow"],
                    [class |-> "MacOSMenu"]>>

\* thread t takes the step of its call that leaves position p
Leaves(t, p) == pc[t] = p /\ pc'[t] # p

\* C22: every query of the history is appended while the payload is
\* connected: executeQuery() never appends a query and returns a result
\* after a disconnect() of another thread has completed.
C22_AppendsWhileConnected ==
    [][\A t \in Threads : Leaves(t, "eq_body") => is_connected_]_vars

\* C23: the connection set-up is performed once for each change of the
\* payload from disconnected to connected: a thread that has performed the
\* set-up stores `true` into a payload that is still disconnected.
C23_OneSetupPerConnection ==
    [][\A t \in Threads : Leaves(t, "co_store") => ~is_connected_]_vars

\* C25: setConnectionString() never succeeds leaving the payload connected
\* under a string other than the one it was connected with.
C25_StringFixedWhileConnected ==
    [][\A t \in Threads :
          Leaves(t, "sc_assign") =>
              ~(is_connected_' /\ connection_string_' # connection_string_)]_vars

\* C24: every entry log() stores has a level >= the minimum level in force
\* at the moment it is appended, also when a setLogLevel() of another
\* thread has returned while the log() call was running.
C24_StoredAtOrAboveMinimum ==
    [][\A t \in Threads :
          Leaves(t, "lg_body") => Passes(arg[t][1], min_level_)]_vars

\* C26: AudioPlayer::play of a format that AudioPlayer::getSupportedFormats()
\* reports (mp3, mp4, vlc, avi) is dispatched to a backend whatever was
\* played on the player before: it never writes a line that says the
\* format is unsupported.
C26_ListedFormatsPlay ==
    [][(/\ lastOp' = "AudioPlayer::play"
        /\ libRet'[2][1] \in {mp3, mp4, vlc, avi})
       => libRet'[4][1] \notin {"Unsupported format: ", "Unsupported audio format: "}
      ]_vars

\* C27: Radio::setChannel(c), reached through any remote, reads the list of
\* available stations only inside its bounds, for every integer c and every
\* list, and leaves a stored channel >= 1.
C27_StationReadsInBounds ==
    [][lastOp' \in {"RemoteControl::setChannel", "RemoteControl::channelUp",
                    "RemoteControl::channelDown", "SmartRemote::voiceCommand"}
       => /\ \A k \in DOMAIN libRet'[4] :
                0 <= libRet'[4][k][1] /\ libRet'[4][k][1] < libRet'[4][k][2]
          /\ \A i \in DOMAIN devices' : devices'[i].channel >= 1
      ]_vars

\* C28: whenever a BasicRemote or an AdvancedRemote reports muted, the volume
\* of its device is 0, whatever was issued through the remotes of the device.
C28_MutedMeansSilent ==
    \A r \in CanMute : remotes[r].muted => DeviceOf(r).volume = 0

\* C28, second part: mute() on a remote that is muted leaves the remembered
\* volume as it is, and unmute() sets the device to the remembered volume.
MuteRemembers ==
    [][\A r \in CanMute :
          /\ (lastOp' = "mute" /\ libRet'[2] = <<r>> /\ remotes[r].muted)
                => UNCHANGED bridgeVars
          /\ (lastOp' = "unmute" /\ libRet'[2] = <<r>> /\ remotes[r].muted)
                => devices'[remotes[r].device].volume
                     = StdMax(0, StdMin(remotes[r].previousVolume,
                                        IF DeviceOf(r).class = "Television"
                                        THEN DeviceOf(r).maxVolume ELSE 100))
      ]_vars

\* C29: a Television of any maxVolume has, from its construction on, a
\* volume in [0, maxVolume] and a channel >= 1.
C29_TelevisionInRange ==
    \A i \in DOMAIN devices :
        devices[i].class = "Television" =>
            /\ 0 <= devices[i].volume /\ devices[i].volume <= devices[i].maxVolume
            /\ devices[i].channel >= 1

\* three doubles are positive numbers of which each two sum to more than
\* the third
ProperSides(a, b, c) ==
    /\ a # NaN /\ b # NaN /\ c # NaN
    /\ a[2] > 0 /\ b[2] > 0 /\ c[2] > 0
    /\ a[2] + b[2] > c[2] /\ a[2] + c[2] > b[2] /\ b[2] + c[2] > a[2]

\* the three sides of a triangle
SidesOf(t) == <<t.side1, t.side2, t.side3>>

\* C30: a Triangle always has three positive sides that satisfy the strict
\* triangle inequality; the constructor and setSides store proper sides as
\* given and set all three sides to 1 otherwise; clone() yields a triangle
\* with the sides of the original and leaves the original as it is.
C30_TriangleValid ==
    /\ [](\A t \in {triangle, triangleCopy} :
             t # <<>> => ProperSides(t[1].side1, t[1].side2, t[1].side3))
    /\ [][/\ lastOp' \in {"Triangle::Triangle", "Triangle::setSides"}
             => SidesOf(triangle'[1]) =
                   IF ProperSides(libRet'[2][1], libRet'[2][2], libRet'[2][3])
                   THEN libRet'[2]
                   ELSE <<Num(1), Num(1), Num(1)>>
          /\ lastOp' = "Triangle::clone"
             => /\ SidesOf(triangleCopy'[1]) = SidesOf(triangle[1])
                /\ UNCHANGED triangle
         ]_vars

\* a triangle with sides 2, 2 and 1 has been given the sides 1, 1 and 2,
\* which meet in a line, and has the sides 1, 1 and 1
C30_Witness ==
    /\ lastOp = "Triangle::setSides"
    /\ libRet[2] = <<Num(1), Num(1), Num(2)>>
    /\ triangle # <<>>
    /\ SidesOf(triangle[1]) = <<Num(1), Num(1), Num(1)>>
    /\ budget = 0

====
